---- MODULE Spec2Model ----
(***************************************************************************)
(* Batch-code decoding engine (BatchCodeValidator) of the two source files *)
(* src/batch_code_reader.py ("reader") and src/app_fixed.py ("app").       *)
(*                                                                         *)
(* A code is a sequence of one-character strings.  A calendar date is a    *)
(* record [year, month, day]; NoDate stands for the ValueError that        *)
(* datetime(...) raises.  A call of analyze_batch_code reads the clock     *)
(* once: the model does not let midnight pass inside one call.             *)
(* Confidences are in hundredths (0.98 is 98).                             *)
(***************************************************************************)
EXTENDS Integers, Sequences, FiniteSets, TLC

VARIABLES impl,                 \* which source file's BatchCodeValidator runs
          today,                \* datetime.now().date()
          current_year,         \* self.current_year, set by __init__
          historical_patterns,  \* self.historical_patterns, set by __init__
          pc,                   \* "idle" | "pending" | "done"
          raw,                  \* the argument of the pending / last call
          all_interpretations,  \* the list collected from the decoders
          result,               \* what the last call returned (or raised)
          memo                  \* a remembered earlier call (history variable)

vars == <<impl, today, current_year, historical_patterns, pc, raw,
          all_interpretations, result, memo>>

(***************************************************************************)
(* Characters                                                              *)
(***************************************************************************)
Digits == <<"0", "1", "2", "3", "4", "5", "6", "7", "8", "9">>
UpperLetters == <<"A", "B", "C", "D", "E", "F", "G", "H", "I", "J", "K", "L", "M",
                  "N", "O", "P", "Q", "R", "S", "T", "U", "V", "W", "X", "Y", "Z">>
LowerLetters == <<"a", "b", "c", "d", "e", "f", "g", "h", "i", "j", "k", "l", "m",
                  "n", "o", "p", "q", "r", "s", "t", "u", "v", "w", "x", "y", "z">>
Range(s) == {s[i] : i \in DOMAIN s}
DigitChars == Range(Digits)
UpperChars == Range(UpperLetters)
LowerChars == Range(LowerLetters)
WhitespaceChars == {" ", "\t"}
SeparatorChars == {"-", "_", ".", "/", "\\"}

DigitVal == [c \in DigitChars |-> CHOOSE i \in 0..9 : Digits[i + 1] = c]
UpperOf == [c \in LowerChars |-> UpperLetters[CHOOSE i \in 1..26 : LowerLetters[i] = c]]

\* str.isdigit() on an ASCII string
isdigit(s) == s # <<>> /\ \A i \in DOMAIN s : s[i] \in DigitChars
\* [A-Z]+ and [A-Z0-9]+
IsAlphaRun(s) == s # <<>> /\ \A i \in DOMAIN s : s[i] \in UpperChars
IsAlnumRun(s) == s # <<>> /\ \A i \in DOMAIN s : s[i] \in UpperChars \cup DigitChars

\* int(s) of a digit string
RECURSIVE int(_)
int(s) == IF s = <<>> THEN 0
          ELSE 10 * int(SubSeq(s, 1, Len(s) - 1)) + DigitVal[s[Len(s)]]

\* ''.join(s): the Python string of a character sequence
RECURSIVE Join(_)
Join(s) == IF s = <<>> THEN "" ELSE s[1] \o Join(Tail(s))

\* str(n) for n >= 0, and the format {n:02d}
RECURSIVE str(_)
str(n) == IF n < 10 THEN Digits[n + 1] ELSE str(n \div 10) \o Digits[(n % 10) + 1]
fmt02d(n) == IF n < 10 THEN "0" \o str(n) ELSE str(n)

(***************************************************************************)
(* Date utilities                                                          *)
(***************************************************************************)
NoDate == [year |-> 0, month |-> 0, day |-> 0]

is_leap_year(year) == (year % 4 = 0 /\ year % 100 # 0) \/ year % 400 = 0

\* calendar.monthrange(year, month)[1]
monthrange(year, month) ==
    IF month = 2 THEN (IF is_leap_year(year) THEN 29 ELSE 28)
    ELSE IF month \in {4, 6, 9, 11} THEN 30 ELSE 31

\* datetime(year, month, day): NoDate is the ValueError
datetime(year, month, day) ==
    IF month \in 1..12 /\ day >= 1 /\ day <= monthrange(year, month)
    THEN [year |-> year, month |-> month, day |-> day]
    ELSE NoDate

YearLen(year) == IF is_leap_year(year) THEN 366 ELSE 365

RECURSIVE DaysBeforeMonth(_, _)
DaysBeforeMonth(year, month) ==
    IF month = 1 THEN 0
    ELSE DaysBeforeMonth(year, month - 1) + monthrange(year, month - 1)

\* date.timetuple().tm_yday
DayOfYear(d) == DaysBeforeMonth(d.year, d.month) + d.day

\* date.toordinal()
toordinal(d) ==
    LET y == d.year - 1
    IN  y * 365 + (y \div 4) - (y \div 100) + (y \div 400) + DayOfYear(d)

\* The date that is day number n (n >= 1) counted from 1 January of year.
RECURSIVE FromYearDay(_, _)
FromYearDay(year, n) ==
    IF n > YearLen(year) THEN FromYearDay(year + 1, n - YearLen(year))
    ELSE LET m == CHOOSE k \in 1..12 :
                    /\ DaysBeforeMonth(year, k) < n
                    /\ n <= DaysBeforeMonth(year, k) + monthrange(year, k)
         IN  [year |-> year, month |-> m, day |-> n - DaysBeforeMonth(year, m)]

\* d + timedelta(days = n), n >= 0
timedelta_add(d, n) == FromYearDay(d.year, DayOfYear(d) + n)

\* a <= b on dates
DateLE(a, b) ==
    a.year * 10000 + a.month * 100 + a.day <= b.year * 10000 + b.month * 100 + b.day

\* mutant: the day of the year is counted from zero
julian_to_date_from_zero(year, day_of_year) ==
    IF ~(1 <= day_of_year /\ day_of_year <= (IF is_leap_year(year) THEN 366 ELSE 365))
    THEN NoDate
    ELSE timedelta_add(datetime(year, 1, 1), day_of_year)

julian_to_date(year, day_of_year) ==
    IF ~(1 <= day_of_year /\ day_of_year <= (IF is_leap_year(year) THEN 366 ELSE 365))
    THEN NoDate
    ELSE timedelta_add(datetime(year, 1, 1), day_of_year - 1)

\* mutant: 29 February rolls over to 1 March instead of collapsing to 28 February
add_years_rolls_over(date, years) ==
    LET replaced == datetime(date.year + years, date.month, date.day)
    IN  IF replaced # NoDate THEN replaced
        ELSE IF date.month = 2 /\ date.day = 29
             THEN datetime(date.year + years, 3, 1)
             ELSE NoDate

\* mutant: the fallback for 29 February leaves the year as it was
add_years_keeps_year(date, years) ==
    LET replaced == datetime(date.year + years, date.month, date.day)
    IN  IF replaced # NoDate THEN replaced
        ELSE IF date.month = 2 /\ date.day = 29
             THEN datetime(date.year, 2, 28)
             ELSE NoDate

add_years(date, years) ==
    LET replaced == datetime(date.year + years, date.month, date.day)
    IN  IF replaced # NoDate THEN replaced
        ELSE IF date.month = 2 /\ date.day = 29
             THEN datetime(date.year + years, 2, 28)
             ELSE NoDate

\* mutant: the upper bound follows the resolver's 90-day allowance
is_valid_expiry_with_allowance(expiry_date, now) ==
    LET max_expiry_dt == add_years(timedelta_add(now, 90), 3)
        min_expiry_dt == datetime(2015, 1, 1)
    IN  [exc |-> FALSE,
         ok  |-> DateLE(min_expiry_dt, expiry_date) /\ DateLE(expiry_date, max_expiry_dt)]

\* mutant: the upper bound of the range is not tested
is_valid_expiry_no_upper_bound(expiry_date, now) ==
    LET max_expiry_dt == datetime(now.year + 3, now.month, now.day)
        min_expiry_dt == datetime(2015, 1, 1)
    IN  IF max_expiry_dt = NoDate THEN [exc |-> TRUE, ok |-> FALSE]
        ELSE [exc |-> FALSE, ok |-> DateLE(min_expiry_dt, expiry_date)]

\* mutant: the upper bound is four years from today
is_valid_expiry_four_years(expiry_date, now) ==
    LET max_expiry_dt == datetime(now.year + 4, now.month, now.day)
        min_expiry_dt == datetime(2015, 1, 1)
    IN  IF max_expiry_dt = NoDate THEN [exc |-> TRUE, ok |-> FALSE]
        ELSE [exc |-> FALSE,
              ok  |-> DateLE(min_expiry_dt, expiry_date) /\ DateLE(expiry_date, max_expiry_dt)]

\* [exc |-> TRUE] is the ValueError of datetime(today.year + 3, ...) on 29 February
is_valid_expiry(expiry_date, now) ==
    LET max_expiry_dt == datetime(now.year + 3, now.month, now.day)
        min_expiry_dt == datetime(2015, 1, 1)
    IN  IF max_expiry_dt = NoDate THEN [exc |-> TRUE, ok |-> FALSE]
        ELSE [exc |-> FALSE,
              ok  |-> DateLE(min_expiry_dt, expiry_date) /\ DateLE(expiry_date, max_expiry_dt)]

\* mutant: 50 is counted with the current century
resolve_two_digit_year_pivot(yy, now) ==
    IF ~(0 <= yy /\ yy <= 99) THEN [exc |-> TRUE, val |-> 0]
    ELSE LET current_century_start == (now.year \div 100) * 100
         IN  IF yy <= 50 THEN [exc |-> FALSE, val |-> current_century_start + yy]
             ELSE [exc |-> FALSE, val |-> (current_century_start - 100) + yy]

\* [exc |-> TRUE] is the ValueError for yy outside 0..99
resolve_two_digit_year(yy, now) ==
    IF ~(0 <= yy /\ yy <= 99) THEN [exc |-> TRUE, val |-> 0]
    ELSE LET current_century_start == (now.year \div 100) * 100
         IN  IF yy < 50 THEN [exc |-> FALSE, val |-> current_century_start + yy]
             ELSE [exc |-> FALSE, val |-> (current_century_start - 100) + yy]

(***************************************************************************)
(* Candidate Date Resolver                                                 *)
(***************************************************************************)
InSeq(x, s) == \E i \in DOMAIN s : s[i] = x

\* candidates.append(dt) guarded as in the three readings of the loop body
\* mutant: the future allowance is one day longer
AppendDate_one_day_more(candidates, dt, max_prod_date_candidate, check_dup) ==
    IF /\ dt # NoDate
       /\ (check_dup => ~InSeq(dt, candidates))
       /\ DateLE(dt, timedelta_add(max_prod_date_candidate, 1))
    THEN Append(candidates, dt)
    ELSE candidates

AppendDate(candidates, dt, max_prod_date_candidate, check_dup) ==
    IF /\ dt # NoDate
       /\ (check_dup => ~InSeq(dt, candidates))
       /\ DateLE(dt, max_prod_date_candidate)
    THEN Append(candidates, dt)
    ELSE candidates

ReadingDDMM(candidates, year_val, part1, part2, max_prod) ==
    IF 1 <= part1 /\ part1 <= 31 /\ 1 <= part2 /\ part2 <= 12
    THEN AppendDate(candidates, datetime(year_val, part2, part1), max_prod, FALSE)
    ELSE candidates

ReadingMMDD(candidates, year_val, part1, part2, max_prod) ==
    IF 1 <= part1 /\ part1 <= 12 /\ 1 <= part2 /\ part2 <= 31
    THEN AppendDate(candidates, datetime(year_val, part1, part2), max_prod, TRUE)
    ELSE candidates

ReadingMMYY(candidates, year_val, part1, max_prod) ==
    IF 1 <= part1 /\ part1 <= 12
    THEN AppendDate(candidates,
                    datetime(year_val, part1, monthrange(year_val, part1)),
                    max_prod, TRUE)
    ELSE candidates

\* sorted(candidates): stable insertion sort, ascending
RECURSIVE InsertDate(_, _)
InsertDate(s, d) ==
    IF s = <<>> THEN <<d>>
    ELSE IF DateLE(s[Len(s)], d) THEN Append(s, d)
    ELSE Append(InsertDate(SubSeq(s, 1, Len(s) - 1), d), s[Len(s)])

\* mutant: the candidates are returned in the order the readings found them
SortedDates_as_found(s) == s

RECURSIVE SortedDates(_)
SortedDates(s) ==
    IF s = <<>> THEN <<>>
    ELSE InsertDate(SortedDates(SubSeq(s, 1, Len(s) - 1)), s[Len(s)])

\* the unique_candidates / seen pass
RECURSIVE UniqueDates(_)
UniqueDates(s) ==
    IF s = <<>> THEN <<>>
    ELSE LET front == UniqueDates(SubSeq(s, 1, Len(s) - 1))
         IN  IF InSeq(s[Len(s)], front) THEN front ELSE Append(front, s[Len(s)])

\* resolved_years_to_try, then valid_prod_years
ResolvedYearsToTry(yy, now) ==
    IF 0 <= yy /\ yy <= 99
    THEN (IF yy > (now.year % 100) + 5 THEN <<1900 + yy>> ELSE <<>>) \o <<2000 + yy>>
    ELSE <<yy>>

ValidProdYears(yy, now) ==
    SelectSeq(ResolvedYearsToTry(yy, now), LAMBDA y : 2015 <= y /\ y <= now.year + 1)

\* The loops of the reader: all three readings inside one loop over the years.
RECURSIVE CandidatesReader(_, _, _, _, _)
CandidatesReader(years, k, part1, part2, max_prod) ==
    IF k = 0 THEN <<>>
    ELSE LET c0 == CandidatesReader(years, k - 1, part1, part2, max_prod)
             c1 == ReadingDDMM(c0, years[k], part1, part2, max_prod)
             c2 == ReadingMMDD(c1, years[k], part1, part2, max_prod)
         IN  ReadingMMYY(c2, years[k], part1, max_prod)

\* The loops of the app: DD/MM and MM/DD per year, then MM/YY in a second loop.
RECURSIVE CandidatesAppDays(_, _, _, _, _)
CandidatesAppDays(years, k, part1, part2, max_prod) ==
    IF k = 0 THEN <<>>
    ELSE LET c0 == CandidatesAppDays(years, k - 1, part1, part2, max_prod)
             c1 == ReadingDDMM(c0, years[k], part1, part2, max_prod)
         IN  ReadingMMDD(c1, years[k], part1, part2, max_prod)

RECURSIVE CandidatesAppMonths(_, _, _, _, _)
CandidatesAppMonths(base, years, k, part1, max_prod) ==
    IF k = 0 THEN base
    ELSE ReadingMMYY(CandidatesAppMonths(base, years, k - 1, part1, max_prod),
                     years[k], part1, max_prod)

parse_date_variants(im, part1, part2, yy, now) ==
    LET valid_prod_years == ValidProdYears(yy, now)
        max_prod == timedelta_add(now, 90)
        n == Len(valid_prod_years)
        candidates ==
            IF im = "reader"
            THEN CandidatesReader(valid_prod_years, n, part1, part2, max_prod)
            ELSE CandidatesAppMonths(
                     CandidatesAppDays(valid_prod_years, n, part1, part2, max_prod),
                     valid_prod_years, n, part1, max_prod)
    IN  UniqueDates(SortedDates(candidates))

(***************************************************************************)
(* Interpretations: Python dicts, modelled as records whose optional keys  *)
(* may be absent.                                                          *)
(***************************************************************************)
\* d.get(key, default)
get(d, key, default) == IF key \in DOMAIN d THEN d[key] ELSE default

\* {**d, key: value}
with(d, key, value) == (key :> value) @@ d

\* Ok(v): normal return of v.  Raised: a ValueError left the function.
Ok(v) == [exc |-> FALSE, val |-> v]
Raised == [exc |-> TRUE, val |-> <<>>]

RECURSIVE ProcessFrom(_, _, _, _, _, _)
ProcessFrom(cands, k, suffix, base_confidence, format_desc_prefix, now) ==
    IF k = 0 THEN <<>>
    ELSE LET prod_date == cands[k]
             expiry_date == add_years(prod_date, 3)
             res_dict == [production_date |-> prod_date,
                          expiry_date |-> expiry_date,
                          confidence |-> base_confidence,
                          format_type |-> IF format_desc_prefix # ""
                                          THEN format_desc_prefix ELSE "Parsed Date"]
             front == ProcessFrom(cands, k - 1, suffix, base_confidence,
                                  format_desc_prefix, now)
         IN  IF is_valid_expiry(expiry_date, now).ok
             THEN Append(front, IF suffix # <<>> THEN with(res_dict, "suffix", suffix)
                                ELSE res_dict)
             ELSE front

process_parsed_dates(prod_date_candidates, suffix, base_confidence, format_desc_prefix, now) ==
    IF prod_date_candidates = <<>> THEN Ok(<<>>)
    ELSE IF is_valid_expiry(add_years(prod_date_candidates[1], 3), now).exc THEN Raised
    ELSE Ok(ProcessFrom(prod_date_candidates, Len(prod_date_candidates), suffix,
                        base_confidence, format_desc_prefix, now))

(***************************************************************************)
(* Pattern registry: each regular expression is modelled by the test it    *)
(* performs on an ASCII code and by the groups it captures.                *)
(***************************************************************************)
load_historical_patterns ==
    {"yddd_bb", "ddmmyyyy_variants", "ddmmyy_variants", "julian_with_suffix",
     "mixed_alpha", "prefix_yymm_suffix", "special_prefix"}

NoMatch == [ok |-> FALSE, g |-> <<>>]
Match(groups) == [ok |-> TRUE, g |-> groups]

\* code[i:j] with 1-based inclusive bounds
Sub(code, i, j) == SubSeq(code, i, j)

\* ^(\d)(\d{3})(\d{2})$
match_yddd_bb(code) ==
    IF Len(code) = 6 /\ isdigit(code)
    THEN Match(<<Sub(code, 1, 1), Sub(code, 2, 4), Sub(code, 5, 6)>>)
    ELSE NoMatch

\* mutant: lazy groups (\d{1,2}?), the shortest fields are tried first
LazyWidths == <<<<1, 1>>, <<1, 2>>, <<2, 1>>, <<2, 2>>>>

\* ^(\d{1,2})(\d{1,2})(\d{2})(\d{1,3})$ : greedy, so the widths of the first two
\* groups are tried in the order (2,2), (2,1), (1,2), (1,1)
GreedyWidths == <<<<2, 2>>, <<2, 1>>, <<1, 2>>, <<1, 1>>>>
match_ddmmyyyy_variants(code) ==
    LET n == Len(code)
        fits(w) == n - w[1] - w[2] - 2 >= 1 /\ n - w[1] - w[2] - 2 <= 3
        tries == SelectSeq(GreedyWidths, fits)
    IN  IF isdigit(code) /\ tries # <<>>
        THEN LET a == tries[1][1]
                 b == tries[1][2]
             IN  Match(<<Sub(code, 1, a), Sub(code, a + 1, a + b),
                         Sub(code, a + b + 1, a + b + 2), Sub(code, a + b + 3, n)>>)
        ELSE NoMatch

\* ^(\d{2})(\d{2})(\d{2})$
match_ddmmyy_variants(code) ==
    IF Len(code) = 6 /\ isdigit(code)
    THEN Match(<<Sub(code, 1, 2), Sub(code, 3, 4), Sub(code, 5, 6)>>)
    ELSE NoMatch

\* ^(\d{3})(\d{2})(\d{1,3})$
match_julian_with_suffix(code) ==
    IF Len(code) >= 6 /\ Len(code) <= 8 /\ isdigit(code)
    THEN Match(<<Sub(code, 1, 3), Sub(code, 4, 5), Sub(code, 6, Len(code))>>)
    ELSE NoMatch

\* the length of the longest prefix of code[from:] made of digits
RECURSIVE DigitRun(_, _)
DigitRun(code, from) ==
    IF from <= Len(code) /\ code[from] \in DigitChars
    THEN 1 + DigitRun(code, from + 1) ELSE 0

\* ^(\d{3,5})(\d{2})([A-Z]+)$
match_mixed_alpha(code) ==
    LET k == DigitRun(code, 1)
    IN  IF k >= 5 /\ k <= 7 /\ IsAlphaRun(Sub(code, k + 1, Len(code)))
        THEN Match(<<Sub(code, 1, k - 2), Sub(code, k - 1, k), Sub(code, k + 1, Len(code))>>)
        ELSE NoMatch

\* ^([A-Z])(\d{2})(\d{2})([A-Z0-9]+)$
match_prefix_yymm_suffix(code) ==
    IF /\ Len(code) >= 6
       /\ code[1] \in UpperChars
       /\ isdigit(Sub(code, 2, 5))
       /\ IsAlnumRun(Sub(code, 6, Len(code)))
    THEN Match(<<Sub(code, 1, 1), Sub(code, 2, 3), Sub(code, 4, 5), Sub(code, 6, Len(code))>>)
    ELSE NoMatch

\* ^([A-Z])(\d{2,4})([A-Z0-9]+)$ : the digit group takes the most digits
\* (at most 4) that still leave a non-empty alphanumeric rest
match_special_prefix(code) ==
    LET n == Len(code)
        run == IF n >= 1 THEN DigitRun(code, 2) ELSE 0
        widths == {k \in 2..4 : k <= run /\ n - 1 - k >= 1}
    IN  IF /\ n >= 1
           /\ code[1] \in UpperChars
           /\ widths # {}
           /\ IsAlnumRun(Sub(code, 2, n))
        THEN LET k == CHOOSE w \in widths : \A v \in widths : v <= w
             IN  Match(<<Sub(code, 1, 1), Sub(code, 2, k + 1), Sub(code, k + 2, n)>>)
        ELSE NoMatch

(***************************************************************************)
(* Per-pattern decoders.  A decoder returns [exc, valid, msg, interps];    *)
(* exc is TRUE when an exception leaves the decoder.  self is the          *)
(* validator object [current_year, historical_patterns]; a pattern read    *)
(* with .get() and missing from the registry matches nothing, one read     *)
(* with [] raises KeyError.                                                *)
(***************************************************************************)
Ret(valid, msg, interps) == [exc |-> FALSE, valid |-> valid, msg |-> msg, interps |-> interps]
Throws == [exc |-> TRUE, valid |-> FALSE, msg |-> "", interps |-> <<>>]

in_code(im, code) == IF im = "app" THEN " in code '" \o Join(code) \o "'" ELSE ""
of_code(im, code) == IF im = "app" THEN " code '" \o Join(code) \o "'" ELSE ""

\* the decade heuristic of validate_yddd_bb
yddd_year(y_digit, now) ==
    LET year_candidate_1 == (now.year \div 10) * 10 + y_digit
    IN  IF year_candidate_1 > now.year THEN year_candidate_1 - 10 ELSE year_candidate_1

validate_yddd_bb(im, self, code, now) ==
    LET m == IF "yddd_bb" \in self.historical_patterns THEN match_yddd_bb(code) ELSE NoMatch
        y_digit == int(m.g[1])
        ddd == int(m.g[2])
        bb_str == m.g[3]
        year == yddd_year(y_digit, now)
        prod_date == julian_to_date(year, ddd)
        expiry_date == add_years(prod_date, 3)
        invalid == Ret(FALSE, "Invalid data for YDDD BB pattern" \o in_code(im, code), <<>>)
    IN  IF ~m.ok THEN Ret(FALSE, "Not YDDD BB pattern", <<>>)
        ELSE IF ~(2015 <= year /\ year <= now.year + 1)
        THEN Ret(FALSE, "Resolved year " \o str(year) \o " is out of valid range"
                        \o (IF im = "app" THEN " (2015-current)" ELSE ""), <<>>)
        ELSE IF prod_date = NoDate THEN invalid
        ELSE IF is_valid_expiry(expiry_date, now).exc THEN invalid
        ELSE IF is_valid_expiry(expiry_date, now).ok
        THEN Ret(TRUE,
                 "YDDD BB (Year: " \o str(year) \o ", Julian: " \o str(ddd)
                     \o ", Batch: " \o Join(bb_str) \o ")",
                 <<[production_date |-> prod_date,
                    expiry_date |-> expiry_date,
                    julian_day |-> ddd,
                    batch |-> bb_str,
                    confidence |-> 98,
                    format_type |-> "YDDD BB"]>>)
        ELSE invalid

\* the relabelling loops of patterns 1, 2 and (app) 4
Relabel(results, part1, part2, ddmm, mmdd, other) ==
    [i \in DOMAIN results |->
        LET r == results[i]
        IN  IF r.production_date.day = part1 /\ r.production_date.month = part2
            THEN [r EXCEPT !.format_type = ddmm]
            ELSE IF r.production_date.month = part1 /\ r.production_date.day = part2
            THEN [r EXCEPT !.format_type = mmdd]
            ELSE [r EXCEPT !.format_type = other]]

validate_historical_pattern_1(im, self, code, now) ==
    LET m == match_ddmmyyyy_variants(code)
        missing == "ddmmyyyy_variants" \notin self.historical_patterns
        day == int(m.g[1])
        month == int(m.g[2])
        yy == int(m.g[3])
        suffix_str == m.g[4]
        candidates == parse_date_variants(im, day, month, yy, now)
        results == process_parsed_dates(candidates, suffix_str, 90, "DD/MM/YY or MM/DD/YY", now)
        invalid == Ret(FALSE, "Invalid data historical pattern 1" \o of_code(im, code), <<>>)
    IN  IF missing THEN Throws
        ELSE IF ~m.ok THEN Ret(FALSE, "Not historical pattern 1", <<>>)
        ELSE IF results.exc THEN invalid
        ELSE IF results.val # <<>>
        THEN Ret(TRUE,
                 IF im = "app"
                 THEN "Historical Pattern 1 (Day/Month/Year with suffix) Suffix: " \o Join(suffix_str)
                 ELSE "Historical Pattern 1 - Suffix: " \o Join(suffix_str),
                 Relabel(results.val, day, month, "DD/MM/YY + suffix", "MM/DD/YY + suffix",
                         "Parsed Date (MM/YY?) + suffix"))
        ELSE invalid

validate_historical_pattern_2(im, self, code, now) ==
    LET m == match_ddmmyy_variants(code)
        missing == "ddmmyy_variants" \notin self.historical_patterns
        part1 == int(m.g[1])
        part2 == int(m.g[2])
        yy == int(m.g[3])
        candidates == parse_date_variants(im, part1, part2, yy, now)
        results == process_parsed_dates(candidates, <<>>, 85, "DD/MM/YY or MM/DD/YY", now)
        invalid == Ret(FALSE, "Invalid data historical pattern 2" \o of_code(im, code), <<>>)
    IN  IF missing THEN Throws
        ELSE IF ~m.ok
        THEN Ret(FALSE,
                 IF im = "app"
                 THEN (IF Len(code) # 6 \/ ~isdigit(code)
                       THEN "Not historical pattern 2 (len/type)"
                       ELSE "Not historical pattern 2 (regex mismatch)")
                 ELSE "Not historical pattern 2", <<>>)
        ELSE IF results.exc THEN invalid
        ELSE IF results.val # <<>>
        THEN Ret(TRUE,
                 IF im = "app"
                 THEN "Historical Pattern 2 (Day/Month/Year or Month/Day/Year)"
                 ELSE "Historical Pattern 2",
                 Relabel(results.val, part1, part2, "DD/MM/YY", "MM/DD/YY",
                         "MM/YY (End of Month)"))
        ELSE invalid

validate_historical_pattern_3(im, self, code, now) ==
    LET m == match_julian_with_suffix(code)
        missing == "julian_with_suffix" \notin self.historical_patterns
        ddd == int(m.g[1])
        yy == int(m.g[2])
        suffix_str == m.g[3]
        year == resolve_two_digit_year(yy, now)
        prod_date == julian_to_date(year.val, ddd)
        expiry_date == add_years(prod_date, 3)
        invalid == Ret(FALSE, "Invalid data historical pattern 3" \o of_code(im, code), <<>>)
    IN  IF missing THEN Throws
        ELSE IF ~m.ok THEN Ret(FALSE, "Not historical pattern 3", <<>>)
        ELSE IF year.exc THEN invalid
        ELSE IF ~(2015 <= year.val /\ year.val <= self.current_year + 1)
        THEN Ret(FALSE, "Year " \o str(year.val) \o " out of range"
                        \o (IF im = "app" THEN " hist.P3" ELSE ""), <<>>)
        ELSE IF prod_date = NoDate THEN invalid
        ELSE IF is_valid_expiry(expiry_date, now).exc THEN invalid
        ELSE IF is_valid_expiry(expiry_date, now).ok
        THEN Ret(TRUE,
                 "Historical Pattern 3 (Julian " \o str(ddd) \o "/" \o str(year.val)
                     \o " + suffix: " \o Join(suffix_str) \o ")",
                 <<[production_date |-> prod_date,
                    expiry_date |-> expiry_date,
                    julian_day |-> ddd,
                    suffix |-> suffix_str,
                    confidence |-> 95,
                    format_type |-> "Julian DDDYY + Suffix"]>>)
        ELSE invalid

validate_historical_pattern_4(im, self, code, now) ==
    LET m == match_mixed_alpha(code)
        missing == "mixed_alpha" \notin self.historical_patterns
        date_part_str == m.g[1]
        yy == int(m.g[2])
        alpha_suffix == m.g[3]
        \* len(date_part_str) == 3
        ddd == int(date_part_str)
        year_resolved == resolve_two_digit_year(yy, now)
        prod_date == julian_to_date(year_resolved.val, ddd)
        expiry_date == add_years(prod_date, 3)
        julian_results ==
            IF /\ 2015 <= year_resolved.val /\ year_resolved.val <= self.current_year + 1
               /\ prod_date # NoDate
               /\ ~is_valid_expiry(expiry_date, now).exc
               /\ is_valid_expiry(expiry_date, now).ok
            THEN <<[production_date |-> prod_date,
                    expiry_date |-> expiry_date,
                    julian_day |-> ddd,
                    alpha_suffix |-> alpha_suffix,
                    confidence |-> 90,
                    format_type |-> "Julian DDDYY + Alpha Suffix"]>>
            ELSE <<>>
        \* len(date_part_str) == 4
        p1 == int(Sub(date_part_str, 1, 2))
        p2 == int(Sub(date_part_str, 3, 4))
        candidates == parse_date_variants(im, p1, p2, yy, now)
        processed == process_parsed_dates(candidates, alpha_suffix, 85,
                                          "DDMMYY/MMDDYY + Alpha", now)
        tagged == [i \in DOMAIN processed.val |->
                      with(processed.val[i], "alpha_suffix", alpha_suffix)]
        variant_results ==
            IF im = "app"
            THEN Relabel(tagged, p1, p2, "DDMMYY + Alpha Suffix", "MMDDYY + Alpha Suffix",
                         "MMYY (End of Month) + Alpha Suffix")
            ELSE tagged
        final_results ==
            IF Len(date_part_str) = 3 THEN julian_results
            ELSE IF Len(date_part_str) = 4 THEN variant_results
            ELSE <<>>
        invalid == Ret(FALSE, "Invalid data historical pattern 4" \o of_code(im, code), <<>>)
    IN  IF missing THEN Throws
        ELSE IF ~m.ok THEN Ret(FALSE, "Not historical pattern 4", <<>>)
        ELSE IF Len(date_part_str) = 3 /\ year_resolved.exc THEN invalid
        ELSE IF Len(date_part_str) = 4 /\ processed.exc THEN invalid
        ELSE IF final_results # <<>>
        THEN Ret(TRUE,
                 IF im = "app"
                 THEN "Historical Pattern 4 (Date digits + alphabetic suffix) Alpha Suffix: "
                          \o Join(alpha_suffix)
                 ELSE "Historical Pattern 4 - Alpha Suffix: " \o Join(alpha_suffix),
                 final_results)
        ELSE invalid

validate_prefix_yymm_suffix(im, self, code, now) ==
    LET m == IF "prefix_yymm_suffix" \in self.historical_patterns
             THEN match_prefix_yymm_suffix(code) ELSE NoMatch
        prefix_str == m.g[1]
        yy == int(m.g[2])
        mm == int(m.g[3])
        suffix_str == m.g[4]
        year == resolve_two_digit_year(yy, now)
        last_day_of_month == monthrange(year.val, mm)
        prod_date == datetime(year.val, mm, last_day_of_month)
        expiry_date == add_years(prod_date, 3)
        invalid == Ret(FALSE, "Invalid data for Prefix-YYMM-Suffix" \o in_code(im, code), <<>>)
    IN  IF ~m.ok THEN Ret(FALSE, "Not Prefix-YYMM-Suffix pattern", <<>>)
        ELSE IF ~(1 <= mm /\ mm <= 12)
        THEN Ret(FALSE, "Invalid month '" \o Join(m.g[3]) \o "'"
                        \o (IF im = "app" THEN " for pattern" ELSE ""), <<>>)
        ELSE IF year.exc THEN invalid
        ELSE IF ~(2015 <= year.val /\ year.val <= self.current_year + 1)
        THEN Ret(FALSE, "Year " \o str(year.val) \o " out of range"
                        \o (IF im = "app" THEN " for pattern" ELSE ""), <<>>)
        ELSE IF prod_date = NoDate THEN invalid
        ELSE IF is_valid_expiry(expiry_date, now).exc THEN invalid
        ELSE IF is_valid_expiry(expiry_date, now).ok
        THEN Ret(TRUE,
                 "Prefix-YYMM-Suffix (Prefix: " \o Join(prefix_str) \o ", Date: " \o fmt02d(mm)
                     \o "/" \o str(year.val) \o ", Suffix: " \o Join(suffix_str) \o ")",
                 <<[production_date |-> prod_date,
                    expiry_date |-> expiry_date,
                    prefix |-> prefix_str,
                    suffix |-> suffix_str,
                    confidence |-> 95,
                    format_type |-> "Prefix-YYMM-Suffix"]>>)
        ELSE invalid

\* sorted(final_results, key = production_date): stable insertion sort, ascending
RECURSIVE InsertByProd(_, _)
InsertByProd(s, r) ==
    IF s = <<>> THEN <<r>>
    ELSE IF DateLE(s[Len(s)].production_date, r.production_date) THEN Append(s, r)
    ELSE Append(InsertByProd(SubSeq(s, 1, Len(s) - 1), r), s[Len(s)])

RECURSIVE SortedByProd(_)
SortedByProd(s) ==
    IF s = <<>> THEN <<>>
    ELSE InsertByProd(SortedByProd(SubSeq(s, 1, Len(s) - 1)), s[Len(s)])

\* the unique_final_results / seen_dates pass
RECURSIVE UniqueByProd(_)
UniqueByProd(s) ==
    IF s = <<>> THEN <<>>
    ELSE LET front == UniqueByProd(SubSeq(s, 1, Len(s) - 1))
         IN  IF \E i \in DOMAIN front : front[i].production_date = s[Len(s)].production_date
             THEN front ELSE Append(front, s[Len(s)])

validate_special_prefix(im, self, code, now) ==
    LET m == IF "special_prefix" \in self.historical_patterns
             THEN match_special_prefix(code) ELSE NoMatch
        prefix_char == m.g[1]
        date_digits_str == m.g[2]
        suffix_str == m.g[3]
        p1 == int(Sub(date_digits_str, 1, 2))
        p2_or_yy == int(Sub(date_digits_str, 3, 4))
        year_mmyy == resolve_two_digit_year(p2_or_yy, now)
        prod_dt_mmyy == datetime(year_mmyy.val, p1, monthrange(year_mmyy.val, p1))
        expiry_dt_mmyy == add_years(prod_dt_mmyy, 3)
        mmyy_results ==
            IF /\ 1 <= p1 /\ p1 <= 12
               /\ 2015 <= year_mmyy.val /\ year_mmyy.val <= self.current_year + 1
               /\ prod_dt_mmyy # NoDate
               /\ DateLE(prod_dt_mmyy, timedelta_add(now, 90))
               /\ ~is_valid_expiry(expiry_dt_mmyy, now).exc
               /\ is_valid_expiry(expiry_dt_mmyy, now).ok
            THEN <<[production_date |-> prod_dt_mmyy,
                    expiry_date |-> expiry_dt_mmyy,
                    prefix |-> prefix_char,
                    suffix |-> suffix_str,
                    confidence |-> 75,
                    format_type |->
                        IF im = "app"
                        THEN "Special Prefix (" \o Join(prefix_char) \o ") + MMYY ("
                                 \o fmt02d(p1) \o "/" \o fmt02d(p2_or_yy) \o ") + Suffix ("
                                 \o Join(suffix_str) \o ")"
                        ELSE "Special Prefix (" \o Join(prefix_char) \o ") + MMYY"]>>
            ELSE <<>>
        \* app only: the Candidate Date Resolver on the same two fields
        candidates_ddmmyy_etc == parse_date_variants(im, p1, p2_or_yy, p2_or_yy, now)
        processed_ddmmyy == process_parsed_dates(candidates_ddmmyy_etc, <<>>, 70, "", now)
        parsed_results ==
            [i \in DOMAIN processed_ddmmyy.val |->
                [[prefix |-> prefix_char, suffix |-> suffix_str] @@ processed_ddmmyy.val[i]
                    EXCEPT !.format_type =
                        "Special Prefix (" \o Join(prefix_char) \o ") + Parsed("
                            \o Join(date_digits_str) \o ") + Suffix (" \o Join(suffix_str) \o ")"]]
        final_results ==
            IF Len(date_digits_str) # 4 THEN <<>>
            ELSE IF im = "app" THEN mmyy_results \o parsed_results
            ELSE mmyy_results
        invalid == Ret(FALSE, "Invalid data for special_prefix" \o in_code(im, code), <<>>)
    IN  IF ~m.ok THEN Ret(FALSE, "Not special_prefix pattern", <<>>)
        ELSE IF Len(date_digits_str) = 4 /\ year_mmyy.exc THEN invalid
        ELSE IF Len(date_digits_str) = 4 /\ im = "app" /\ processed_ddmmyy.exc THEN invalid
        ELSE IF final_results # <<>>
        THEN Ret(TRUE,
                 IF im = "app"
                 THEN "Special Prefix (Prefix: " \o Join(prefix_char) \o ", Suffix: "
                          \o Join(suffix_str) \o ")"
                 ELSE "Special Prefix",
                 UniqueByProd(SortedByProd(final_results)))
        ELSE invalid

\* mutant: the label of the Julian+Suffix decoder copied into the legacy decoder
legacy_label_copied == "Julian DDDYY + Suffix"

\* format_type of the first legacy sub-rule
legacy_dddyybb_label == "Legacy DDDYYBB (Julian)"

\* one of the two sub-rules of validate_legacy_formats: the Julian date of
\* (yy, ddd), or <<>> when the try block yields nothing
LegacyDate(self, yy, ddd, now) ==
    LET year == resolve_two_digit_year(yy, now)
        prod_date == julian_to_date(year.val, ddd)
        expiry_date == add_years(prod_date, 3)
    IN  IF /\ ~year.exc
           /\ 2015 <= year.val /\ year.val <= self.current_year + 1
           /\ prod_date # NoDate
           /\ ~is_valid_expiry(expiry_date, now).exc
           /\ is_valid_expiry(expiry_date, now).ok
        THEN <<[production_date |-> prod_date, expiry_date |-> expiry_date]>>
        ELSE <<>>

validate_legacy_formats(im, self, code, now) ==
    LET dddyybb ==
            IF Len(code) = 7 /\ isdigit(code)
            THEN LET d == LegacyDate(self, int(Sub(code, 4, 5)), int(Sub(code, 1, 3)), now)
                 IN  IF d = <<>> THEN <<>>
                     ELSE <<[production_date |-> d[1].production_date,
                             expiry_date |-> d[1].expiry_date,
                             batch |-> Sub(code, 6, 7),
                             confidence |-> 80,
                             format_type |-> legacy_dddyybb_label]>>
            ELSE <<>>
        suffix_val == IF Len(code) > 5 THEN Sub(code, 6, Len(code)) ELSE <<>>
        yyddd ==
            IF Len(code) >= 5 /\ isdigit(Sub(code, 1, 5))
            THEN LET d == LegacyDate(self, int(Sub(code, 1, 2)), int(Sub(code, 3, 5)), now)
                     is_dup ==
                         IF Len(code) = 7
                         THEN \E i \in DOMAIN dddyybb :
                                 /\ dddyybb[i].format_type = "Legacy DDDYYBB (Julian)"
                                 /\ dddyybb[i].production_date = d[1].production_date
                         ELSE FALSE
                 IN  IF d = <<>> \/ is_dup THEN <<>>
                     ELSE <<[production_date |-> d[1].production_date,
                             expiry_date |-> d[1].expiry_date,
                             suffix |-> suffix_val,
                             confidence |-> 80,
                             format_type |-> IF suffix_val # <<>>
                                             THEN "Legacy YYDDD (Julian) + Suffix"
                                             ELSE "Legacy YYDDD (Julian)"]>>
            ELSE <<>>
        results == dddyybb \o yyddd
    IN  IF results # <<>> THEN Ret(TRUE, "Legacy Format Match", results)
        ELSE Ret(FALSE, "No legacy format match", <<>>)

(***************************************************************************)
(* Analysis orchestrator                                                   *)
(***************************************************************************)
\* str.strip()
RECURSIVE lstrip(_)
lstrip(s) == IF s # <<>> /\ s[1] \in WhitespaceChars THEN lstrip(Tail(s)) ELSE s
RECURSIVE rstrip(_)
rstrip(s) ==
    IF s # <<>> /\ s[Len(s)] \in WhitespaceChars THEN rstrip(SubSeq(s, 1, Len(s) - 1)) ELSE s
strip(s) == rstrip(lstrip(s))

\* str.upper()
upper(s) == [i \in DOMAIN s |-> IF s[i] \in LowerChars THEN UpperOf[s[i]] ELSE s[i]]

\* the character class of the cleaning regex: [-_./\\\s] in the reader,
\* [-_./\\s] in the app (a backslash and the letter s, no \s)
CleanedChars(im) ==
    IF im = "reader" THEN SeparatorChars \cup WhitespaceChars
    ELSE SeparatorChars \cup {"s"}

\* re.sub(class, '', code_orig.upper())
clean(im, code_orig) == SelectSeq(upper(code_orig), LAMBDA c : c \notin CleanedChars(im))

\* the validators list: <<format_name_source, decoder number>>
validators(im) ==
    IF im = "reader"
    THEN <<"YDDD-BB", "Prefix-YYMM-Suffix", "Julian DDDYY+Suffix", "DDMMYY+Suffix",
           "Date+Alpha Suffix", "DDMMYY or MMDDYY", "Legacy Formats", "Special Prefix">>
    ELSE <<"Historical-7 (YDDD-BB)", "Historical-6 (Prefix-YYMM-Suffix)",
           "Historical-3 (Julian DDDYY+Suffix)", "Historical-1 (DDMMYY+Suffix like)",
           "Historical-4 (Date+Alpha Suffix)", "Historical-2 (DDMMYY or MMDDYY 6-digit)",
           "Legacy Formats (DDDYYBB, YYDDD)", "Historical-5 (Special Prefix Fallback)">>

\* val_func(cleaned_code) for the k-th entry of the validators list
val_func(k, im, self, code, now) ==
    CASE k = 1 -> validate_yddd_bb(im, self, code, now)
      [] k = 2 -> validate_prefix_yymm_suffix(im, self, code, now)
      [] k = 3 -> validate_historical_pattern_3(im, self, code, now)
      [] k = 4 -> validate_historical_pattern_1(im, self, code, now)
      [] k = 5 -> validate_historical_pattern_4(im, self, code, now)
      [] k = 6 -> validate_historical_pattern_2(im, self, code, now)
      [] k = 7 -> validate_legacy_formats(im, self, code, now)
      [] k = 8 -> validate_special_prefix(im, self, code, now)

\* one pass of the collection loop: an exception is caught and logged, a
\* match is tagged with its source and message and appended
Tagged(r, source) ==
    [i \in DOMAIN r.interps |->
        with(with(r.interps[i], "format_name_source", source), "parsing_message", r.msg)]

\* mutant: the interpretations of a decoder are added to the list twice
Contribution_added_twice(r, source) ==
    IF r.exc THEN <<>>
    ELSE IF r.valid /\ r.interps # <<>> THEN Tagged(r, source) \o Tagged(r, source)
    ELSE <<>>

\* what one decoder's return adds to all_interpretations
Contribution(r, source) ==
    IF r.exc THEN <<>>
    ELSE IF r.valid /\ r.interps # <<>> THEN Tagged(r, source)
    ELSE <<>>

\* mutant: the try block encloses the whole loop, so the first exception
\* ends the collection
RECURSIVE collect_try_outside(_, _, _, _, _)
collect_try_outside(k, im, self, code, now) ==
    IF k = 0 THEN <<>>
    ELSE IF \E j \in 1..k : val_func(j, im, self, code, now).exc
    THEN collect_try_outside(k - 1, im, self, code, now)
    ELSE collect_try_outside(k - 1, im, self, code, now)
             \o Contribution(val_func(k, im, self, code, now), validators(im)[k])

RECURSIVE collect(_, _, _, _, _)
collect(k, im, self, code, now) ==
    IF k = 0 THEN <<>>
    ELSE collect(k - 1, im, self, code, now)
             \o Contribution(val_func(k, im, self, code, now), validators(im)[k])

JulianFamily == {"Julian DDDYY + Suffix", "Julian DDDYY + Alpha Suffix", "Legacy DDDYYBB (Julian)"}

\* mutant: the disambiguation preference is missing
collision_rule_missing(all) == all

\* mutant: the preference applied while collecting, so a YDDD BB is dropped
\* only when a DDDYY-style match was collected before it
RECURSIVE collision_rule_in_passing(_)
collision_rule_in_passing(all) ==
    IF all = <<>> THEN <<>>
    ELSE LET n == Len(all)
             front == SubSeq(all, 1, n - 1)
         IN  IF /\ get(all[n], "format_type", "") = "YDDD BB"
                /\ \E j \in DOMAIN front : get(front[j], "format_type", "") \in JulianFamily
             THEN collision_rule_in_passing(front)
             ELSE Append(collision_rule_in_passing(front), all[n])

\* the disambiguation preference: drop YDDD BB when a DDDYY-style match exists
collision_rule(all) ==
    LET has_yddd == \E i \in DOMAIN all : get(all[i], "format_type", "") = "YDDD BB"
        has_dddyy == \E i \in DOMAIN all : get(all[i], "format_type", "") \in JulianFamily
    IN  IF has_yddd /\ has_dddyy
        THEN SelectSeq(all, LAMBDA i : get(i, "format_type", "") # "YDDD BB")
        ELSE all

\* mutant: reverse = True is missing, the sort is ascending
RECURSIVE InsertAscending(_, _)
InsertAscending(s, r) ==
    IF s = <<>> THEN <<r>>
    ELSE IF get(s[Len(s)], "confidence", 0) <= get(r, "confidence", 0) THEN Append(s, r)
    ELSE Append(InsertAscending(SubSeq(s, 1, Len(s) - 1), r), s[Len(s)])

RECURSIVE sorted_ascending(_)
sorted_ascending(s) ==
    IF s = <<>> THEN <<>>
    ELSE InsertAscending(sorted_ascending(SubSeq(s, 1, Len(s) - 1)), s[Len(s)])

\* sorted(..., key = confidence, reverse = True): stable, descending
\* mutant: the sort key is (confidence, production date), so that entries
\* of equal confidence come latest production date first
RECURSIVE InsertByConfidence_then_date(_, _)
InsertByConfidence_then_date(s, r) ==
    IF s = <<>> THEN <<r>>
    ELSE IF \/ get(s[Len(s)], "confidence", 0) > get(r, "confidence", 0)
            \/ /\ get(s[Len(s)], "confidence", 0) = get(r, "confidence", 0)
               /\ DateLE(get(r, "production_date", NoDate),
                         get(s[Len(s)], "production_date", NoDate))
         THEN Append(s, r)
    ELSE Append(InsertByConfidence_then_date(SubSeq(s, 1, Len(s) - 1), r), s[Len(s)])

RECURSIVE InsertByConfidence(_, _)
InsertByConfidence(s, r) ==
    IF s = <<>> THEN <<r>>
    ELSE IF get(s[Len(s)], "confidence", 0) >= get(r, "confidence", 0) THEN Append(s, r)
    ELSE Append(InsertByConfidence(SubSeq(s, 1, Len(s) - 1), r), s[Len(s)])

RECURSIVE sorted_by_confidence(_)
sorted_by_confidence(s) ==
    IF s = <<>> THEN <<>>
    ELSE InsertByConfidence(sorted_by_confidence(SubSeq(s, 1, Len(s) - 1)), s[Len(s)])

\* mutant: interp['suffix'] in place of interp.get('suffix', '')
key_tuple_indexes_suffix(interp) ==
    IF {"production_date", "expiry_date", "suffix"} \subseteq DOMAIN interp
    THEN Ok(<<toordinal(interp.production_date), toordinal(interp.expiry_date),
              get(interp, "format_type", ""), interp.suffix,
              get(interp, "batch", <<>>), get(interp, "prefix", <<>>)>>)
    ELSE Raised

\* key_tuple; Raised is the KeyError of a missing production_date / expiry_date
key_tuple(interp) ==
    IF {"production_date", "expiry_date"} \subseteq DOMAIN interp
    THEN Ok(<<toordinal(interp.production_date), toordinal(interp.expiry_date),
              get(interp, "format_type", ""), get(interp, "suffix", <<>>),
              get(interp, "batch", <<>>), get(interp, "prefix", <<>>)>>)
    ELSE Raised

\* the seen_keys pass over the sorted list
RECURSIVE unique_interpretations(_)
unique_interpretations(s) ==
    IF s = <<>> THEN Ok(<<>>)
    ELSE LET front == unique_interpretations(SubSeq(s, 1, Len(s) - 1))
             key == key_tuple(s[Len(s)])
         IN  IF front.exc \/ key.exc THEN Raised
             ELSE IF \E i \in DOMAIN front.val : key_tuple(front.val[i]).val = key.val
             THEN front
             ELSE Ok(Append(front.val, s[Len(s)]))

Returns(success, message, interps) ==
    [raised |-> FALSE, success |-> success, message |-> message, interps |-> interps]
Raises == [raised |-> TRUE, success |-> FALSE, message |-> "", interps |-> <<>>]

\* mutant: the early return for an empty code reports success
EmptyCodeResult_success(im, code_orig) ==
    Returns(TRUE, "Empty code", <<>>)

EmptyCodeResult(im, code_orig) ==
    Returns(FALSE,
            IF im = "app" /\ code_orig # <<>> THEN "Code empty after cleaning" ELSE "Empty code",
            <<>>)

\* mutant: the fall-through return reports success
NoPatternResult_success(im) ==
    [raised |-> FALSE, success |-> TRUE,
     message |-> IF im = "app" THEN "No valid date patterns found by any validator"
                 ELSE "No valid date patterns found",
     interps |-> <<>>]

NoPatternResult(im) ==
    Returns(FALSE,
            IF im = "app" THEN "No valid date patterns found by any validator"
            ELSE "No valid date patterns found",
            <<>>)

\* the part of analyze_batch_code after the collection loop
rank(im, all) ==
    IF all = <<>> THEN NoPatternResult(im)
    ELSE LET unique == unique_interpretations(sorted_by_confidence(collision_rule(all)))
             final == sorted_by_confidence(unique.val)
             num_found == Len(final)
         IN  IF unique.exc THEN Raises
             ELSE IF final = <<>>
             THEN Returns(FALSE, "No valid interpretations after filtering", <<>>)
             ELSE Returns(TRUE,
                          "Found " \o str(num_found) \o " valid interpretation"
                              \o (IF num_found > 1 THEN "s" ELSE ""),
                          final)

analyze_batch_code(im, self, code, now) ==
    LET code_orig == strip(code)
        cleaned_code == clean(im, code_orig)
    IN  IF cleaned_code = <<>> THEN EmptyCodeResult(im, code_orig)
        ELSE rank(im, collect(8, im, self, cleaned_code, now))

(***************************************************************************)
(* Inputs                                                                  *)
(***************************************************************************)
Date(y, m, d) == [year |-> y, month |-> m, day |-> d]

\* the clock readings of the model, in ascending order
DateList ==
    <<Date(2024, 2, 28), Date(2024, 2, 29), Date(2025, 1, 9), Date(2025, 12, 31),
      Date(2026, 1, 1), Date(2026, 11, 2), Date(2027, 3, 1)>>
NumDates == 6
Dates == {DateList[i] : i \in 1..NumDates}

\* two-digit fields from which the generated codes are built
ChunkList == <<<<"0", "2">>, <<"1", "2">>, <<"2", "4">>, <<"2", "9">>, <<"3", "1">>,
               <<"2", "5">>>>
NumChunks == 5
Chunks == {ChunkList[i] : i \in 1..NumChunks}

\* the example codes of the pattern registry
ExampleCodes ==
    {<<"5", "0", "0", "9", "0", "3">>,
     <<"5", "0", "5", "2", "0", "1">>,
     <<"5", "1", "0", "4", "0", "2">>,
     <<"2", "7", "1", "2", "4", "1", "2", "8">>,
     <<"2", "2", "9", "2", "4", "1", "2", "4">>,
     <<"2", "5", "6", "2", "4", "1", "2", "5">>,
     <<"0", "5", "2", "0", "2", "4">>,
     <<"2", "0", "2", "4", "0", "1">>,
     <<"2", "1", "2", "3", "0", "6">>,
     <<"1", "8", "7", "2", "4", "1", "7">>,
     <<"2", "4", "0", "2", "4", "1", "6">>,
     <<"2", "5", "0", "2", "4", "1">>,
     <<"1", "7", "9", "2", "4", "A", "W">>,
     <<"2", "0", "4", "2", "4", "P">>,
     <<"1", "0", "2", "2", "4", "O">>,
     <<"H", "2", "4", "0", "1", "B">>,
     <<"H", "1", "6", "1", "9", "A">>}

\* generated codes: three fields with nothing, a digit or a letter after
\* them, and a letter prefix before two fields with a letter or digit after
DigitCodes ==
    {a \o b \o c \o t : a \in Chunks, b \in Chunks, c \in Chunks, t \in {<<>>, <<"3">>, <<"A">>}}
PrefixCodes == {<<"H">> \o a \o b \o t : a \in Chunks, b \in Chunks, t \in {<<"A">>, <<"3">>}}

\* codes as a user may type them: one separator or blank inserted anywhere,
\* letters in lower case, and inputs that are empty after cleaning
Typed(s) ==
    {SubSeq(s, 1, i) \o <<c>> \o SubSeq(s, i + 1, Len(s)) :
        i \in 0..Len(s), c \in SeparatorChars \cup WhitespaceChars}
    \cup {[i \in DOMAIN s |-> IF i \in low /\ s[i] \in UpperChars
                              THEN LowerLetters[CHOOSE k \in 1..26 : UpperLetters[k] = s[i]]
                              ELSE s[i]] : low \in SUBSET {1, Len(s)}}
TypedCodes ==
    Typed(<<"1", "2", "0", "2", "2", "4">>) \cup Typed(<<"H", "2", "4", "0", "1", "B">>)
    \cup {<<>>, <<" ">>, <<"-">>, <<" ", "-", " ">>, <<"\t", " ">>}

Codes == ExampleCodes \cup DigitCodes \cup PrefixCodes \cup TypedCodes

(***************************************************************************)
(* The state machine: a validator object shared by successive calls        *)
(***************************************************************************)
Self == [current_year |-> current_year, historical_patterns |-> historical_patterns]

NoResult == Returns(FALSE, "", <<>>)
NoMemo == [set |-> FALSE, raw |-> <<>>, today |-> NoDate, result |-> NoResult,
           current_year |-> 0, historical_patterns |-> {}, between |-> FALSE]

\* BatchCodeValidator.__init__ at some clock reading
Init ==
    /\ impl \in {"reader", "app"}
    /\ today \in Dates
    /\ current_year = today.year
    /\ historical_patterns = load_historical_patterns
    /\ pc = "idle"
    /\ raw = <<>>
    /\ all_interpretations = <<>>
    /\ result = NoResult
    /\ memo = NoMemo

\* a caller passes a code to analyze_batch_code; memo notes that a call of
\* another code follows the remembered one
Submit(code) ==
    /\ pc = "idle"
    /\ raw' = code
    /\ pc' = "pending"
    /\ memo' = IF memo.set /\ code # memo.raw THEN [memo EXCEPT !.between = TRUE] ELSE memo
    /\ UNCHANGED <<impl, today, current_year, historical_patterns,
                   all_interpretations, result>>

\* mutant: the call refreshes self.current_year from the clock
validator_refreshed(self, now) == [self EXCEPT !.current_year = now.year]

\* analyze_batch_code assigns no attribute of the validator object
validator_after_call(self, now) == self

\* analyze_batch_code runs to its return
Analyze ==
    /\ pc = "pending"
    /\ all_interpretations' =
           IF clean(impl, strip(raw)) = <<>> THEN <<>>
           ELSE collect(8, impl, Self, clean(impl, strip(raw)), today)
    /\ result' =
           IF clean(impl, strip(raw)) = <<>> THEN EmptyCodeResult(impl, strip(raw))
           ELSE rank(impl, all_interpretations')
    /\ current_year' = validator_after_call(Self, today).current_year
    /\ historical_patterns' = validator_after_call(Self, today).historical_patterns
    /\ pc' = "done"
    /\ UNCHANGED <<impl, today, raw, memo>>

\* the caller has consumed the result
Return ==
    /\ pc = "done"
    /\ pc' = "idle"
    /\ raw' = <<>>
    /\ all_interpretations' = <<>>
    /\ result' = NoResult
    /\ UNCHANGED <<impl, today, current_year, historical_patterns, memo>>

\* the clock moves on between calls; the validator object stays in use
Tick ==
    /\ pc = "idle"
    /\ \E d \in Dates : ~DateLE(d, today) /\ today' = d
    /\ UNCHANGED <<impl, current_year, historical_patterns, pc, raw,
                   all_interpretations, result, memo>>

Next ==
    \/ \E code \in Codes : Submit(code)
    \/ Analyze
    \/ Return
    \/ Tick

Spec == Init /\ [][Next]_vars

(***************************************************************************)
(* The same validator object with one earlier call remembered, so that a   *)
(* later call of the same code at the same clock reading can be compared   *)
(* with it.                                                                *)
(***************************************************************************)
SharedCodes ==
    {<<"5", "0", "0", "9", "0", "3">>, <<"1", "2", "0", "2", "2", "4">>,
     <<"2", "9", "0", "2", "2", "4">>, <<"0", "0", "1", "2", "6", "0", "3">>,
     <<"H", "2", "6", "0", "1", "B">>, <<"H", "1", "2", "2", "4", "A">>,
     <<"1", "7", "9", "2", "4", "A", "W">>, <<"1", "2", " ", "0", "2", "2", "4">>}

\* the caller keeps the result of one call, with the validator's attributes
\* as that call left them, and returns
Remember ==
    /\ pc = "done"
    /\ ~memo.set
    /\ memo' = [set |-> TRUE, raw |-> raw, today |-> today, result |-> result,
                current_year |-> current_year, historical_patterns |-> historical_patterns,
                between |-> FALSE]
    /\ pc' = "idle"
    /\ raw' = <<>>
    /\ all_interpretations' = <<>>
    /\ result' = NoResult
    /\ UNCHANGED <<impl, today, current_year, historical_patterns>>

NextShared ==
    \/ \E code \in SharedCodes : Submit(code)
    \/ Analyze
    \/ Return
    \/ Tick
    \/ Remember

SpecShared == Init /\ [][NextShared]_vars

(***************************************************************************)
(* The registry's own examples, analysed at clock readings around the      *)
(* dates they encode, on leap days and at the ends of 2025-2026 and 2034.   *)
(***************************************************************************)
\* 'examples' of each entry of the pattern registry
examples ==
    [key \in load_historical_patterns |->
        CASE key = "yddd_bb" ->
                 {<<"5", "0", "0", "9", "0", "3">>, <<"5", "0", "5", "2", "0", "1">>,
                  <<"5", "1", "0", "4", "0", "2">>}
          [] key = "ddmmyyyy_variants" ->
                 {<<"2", "7", "1", "2", "4", "1", "2", "8">>,
                  <<"2", "2", "9", "2", "4", "1", "2", "4">>,
                  <<"2", "5", "6", "2", "4", "1", "2", "5">>}
          [] key = "ddmmyy_variants" ->
                 {<<"0", "5", "2", "0", "2", "4">>, <<"2", "0", "2", "4", "0", "1">>,
                  <<"2", "1", "2", "3", "0", "6">>}
          [] key = "julian_with_suffix" ->
                 {<<"1", "8", "7", "2", "4", "1", "7">>, <<"2", "4", "0", "2", "4", "1", "6">>,
                  <<"2", "5", "0", "2", "4", "1">>}
          [] key = "mixed_alpha" ->
                 {<<"1", "7", "9", "2", "4", "A", "W">>, <<"2", "0", "4", "2", "4", "P">>,
                  <<"1", "0", "2", "2", "4", "O">>}
          [] key = "prefix_yymm_suffix" -> {<<"H", "2", "4", "0", "1", "B">>}
          [] key = "special_prefix" -> {<<"H", "1", "6", "1", "9", "A">>}]

\* the registry key each entry of the validators list looks up ("" for the
\* legacy decoder, which uses no registry entry)
pattern_key(k) ==
    CASE k = 1 -> "yddd_bb"
      [] k = 2 -> "prefix_yymm_suffix"
      [] k = 3 -> "julian_with_suffix"
      [] k = 4 -> "ddmmyyyy_variants"
      [] k = 5 -> "mixed_alpha"
      [] k = 6 -> "ddmmyy_variants"
      [] k = 7 -> ""
      [] k = 8 -> "special_prefix"

ExampleDates ==
    {Date(2024, 9, 27), Date(2025, 1, 1), Date(2025, 1, 9), Date(2025, 6, 30),
     Date(2026, 11, 2), Date(2026, 12, 31), Date(2028, 2, 29), Date(2034, 12, 31)}

InitExamples ==
    /\ impl \in {"reader", "app"}
    /\ today \in ExampleDates
    /\ current_year = today.year
    /\ historical_patterns = load_historical_patterns
    /\ pc = "idle"
    /\ raw = <<>>
    /\ all_interpretations = <<>>
    /\ result = NoResult
    /\ memo = NoMemo

TickExamples ==
    /\ pc = "idle"
    /\ \E d \in ExampleDates : ~DateLE(d, today) /\ today' = d
    /\ UNCHANGED <<impl, current_year, historical_patterns, pc, raw,
                   all_interpretations, result, memo>>

NextExamples ==
    \/ \E code \in ExampleCodes : Submit(code)
    \/ Analyze
    \/ Return
    \/ TickExamples

SpecExamples == InitExamples /\ [][NextExamples]_vars

(***************************************************************************)
(* A validator whose registry has lost one entry: the decoders that index  *)
(* the registry with [] then raise KeyError before their own try block.     *)
(***************************************************************************)
FaultyCodes == ExampleCodes \cup SharedCodes

InitFaulty ==
    /\ impl \in {"reader", "app"}
    /\ today \in Dates
    /\ current_year = today.year
    /\ \E key \in load_historical_patterns :
          historical_patterns = load_historical_patterns \ {key}
    /\ pc = "idle"
    /\ raw = <<>>
    /\ all_interpretations = <<>>
    /\ result = NoResult
    /\ memo = NoMemo

NextFaulty ==
    \/ \E code \in FaultyCodes : Submit(code)
    \/ Analyze
    \/ Return
    \/ Tick

SpecFaulty == InitFaulty /\ [][NextFaulty]_vars

(***************************************************************************)
(* The collection loop run over the validators list in another order       *)
(***************************************************************************)
\* for f_name_prefix, val_func in validators, with the list permuted as order
RECURSIVE collect_in(_, _, _, _, _, _)
collect_in(order, n, im, self, code, now) ==
    IF n = 0 THEN <<>>
    ELSE collect_in(order, n - 1, im, self, code, now)
             \o Contribution(val_func(order[n], im, self, code, now), validators(im)[order[n]])

\* analyze_batch_code with the validators list permuted as order
analyze_in(order, im, self, code_orig, now) ==
    IF clean(im, strip(code_orig)) = <<>> THEN EmptyCodeResult(im, strip(code_orig))
    ELSE rank(im, collect_in(order, 8, im, self, clean(im, strip(code_orig)), now))

(***************************************************************************)
(* The two date utilities called on their own: is_valid_expiry and         *)
(* parse_date_variants of a validator object, at the clock readings of the *)
(* model.  raw holds the arguments of the call, result the value of        *)
(* is_valid_expiry and all_interpretations the list of parse_date_variants.*)
(***************************************************************************)
\* expiry dates around both ends of the range, for each clock reading
ExpiryDates ==
    {Date(2014, 12, 31), Date(2015, 1, 1), Date(2025, 6, 30),
     Date(2027, 2, 27), Date(2027, 2, 28), Date(2027, 3, 1),
     Date(2028, 1, 9), Date(2028, 1, 10),
     Date(2028, 12, 31), Date(2029, 1, 1), Date(2029, 1, 2),
     Date(2029, 11, 2), Date(2029, 11, 3), Date(2030, 3, 1), Date(2030, 3, 2)}

\* part1 and part2 of parse_date_variants: days, months and values that are neither
Parts == {0, 1, 2, 3, 12, 13, 29, 30, 31, 32}

\* yy of parse_date_variants
TwoDigitYears == {14, 15, 24, 25, 26, 27, 28, 99}

\* self.is_valid_expiry(expiry_date)
CallIsValidExpiry(expiry_date) ==
    /\ pc = "idle"
    /\ raw' = <<expiry_date>>
    /\ result' = is_valid_expiry(expiry_date, today)
    /\ pc' = "expiry"
    /\ UNCHANGED <<impl, today, current_year, historical_patterns,
                   all_interpretations, memo>>

\* self.parse_date_variants(part1, part2, yy)
CallParseDateVariants(part1, part2, yy) ==
    /\ pc = "idle"
    /\ raw' = <<part1, part2, yy>>
    /\ all_interpretations' = parse_date_variants(impl, part1, part2, yy, today)
    /\ pc' = "resolved"
    /\ UNCHANGED <<impl, today, current_year, historical_patterns, result, memo>>

\* the caller has consumed the value
ReturnUtility ==
    /\ pc \in {"expiry", "resolved", "julian", "added", "century"}
    /\ pc' = "idle"
    /\ raw' = <<>>
    /\ all_interpretations' = <<>>
    /\ result' = NoResult
    /\ UNCHANGED <<impl, today, current_year, historical_patterns, memo>>

\* the date argument of add_years: 29 February and ordinary days
SourceDates ==
    {Date(2020, 2, 29), Date(2024, 2, 29), Date(2096, 2, 29),
     Date(2020, 2, 28), Date(2023, 3, 1), Date(2024, 12, 31)}

\* the years argument of add_years
YearsToAdd == {0, 1, 3, 4}

\* the yy argument of _resolve_two_digit_year
CenturyInputs == {-1, 0, 24, 49, 50, 51, 99, 100}

\* BatchCodeValidator.add_years(date, years); NoDate is the ValueError
CallAddYears(date, years) ==
    /\ pc = "idle"
    /\ raw' = <<date, years>>
    /\ result' = add_years(date, years)
    /\ pc' = "added"
    /\ UNCHANGED <<impl, today, current_year, historical_patterns,
                   all_interpretations, memo>>

\* BatchCodeValidator._resolve_two_digit_year(yy)
CallResolveTwoDigitYear(yy) ==
    /\ pc = "idle"
    /\ raw' = <<yy>>
    /\ result' = resolve_two_digit_year(yy, today)
    /\ pc' = "century"
    /\ UNCHANGED <<impl, today, current_year, historical_patterns,
                   all_interpretations, memo>>

NextUtilities ==
    \/ \E e \in ExpiryDates : CallIsValidExpiry(e)
    \/ \E date \in SourceDates, years \in YearsToAdd : CallAddYears(date, years)
    \/ \E yy \in CenturyInputs : CallResolveTwoDigitYear(yy)
    \/ \E part1 \in Parts, part2 \in Parts, yy \in TwoDigitYears :
           CallParseDateVariants(part1, part2, yy)
    \/ ReturnUtility
    \/ Tick

SpecUtilities == Init /\ [][NextUtilities]_vars

(***************************************************************************)
(* julian_to_date called on its own, next to calls of analyze_batch_code   *)
(* for codes that carry a day of the year.  raw holds the arguments and    *)
(* result the date returned, NoDate for the ValueError.                    *)
(***************************************************************************)
JulianYears == {2000, 2023, 2024, 2025, 2100}
JulianDays == {-1, 0, 1, 59, 60, 61, 365, 366, 367}

\* codes whose decoders read a day of the year
JulianCodes ==
    ExampleCodes
    \cup {<<"0", "6", "0", "2", "4", "1", "2", "8">>,
          <<"3", "6", "6", "2", "4", "1", "2", "8">>,
          <<"3", "6", "6", "2", "5", "1", "2", "8">>,
          <<"0", "0", "1", "2", "6", "0", "3">>,
          <<"0", "6", "0", "2", "4", "A", "W">>,
          <<"4", "0", "6", "0", "0", "3">>}

\* BatchCodeValidator.julian_to_date(year, day_of_year)
CallJulianToDate(year, day_of_year) ==
    /\ pc = "idle"
    /\ raw' = <<year, day_of_year>>
    /\ result' = julian_to_date(year, day_of_year)
    /\ pc' = "julian"
    /\ UNCHANGED <<impl, today, current_year, historical_patterns,
                   all_interpretations, memo>>

NextJulian ==
    \/ \E year \in JulianYears, day_of_year \in JulianDays :
           CallJulianToDate(year, day_of_year)
    \/ ReturnUtility
    \/ \E code \in JulianCodes : Submit(code)
    \/ Analyze
    \/ Return
    \/ Tick

SpecJulian == Init /\ [][NextJulian]_vars

(***************************************************************************)
(* Properties                                                              *)
(***************************************************************************)
Called == pc = "done"
Interps == result.interps
Labels(s) == {get(s[i], "format_type", "") : i \in DOMAIN s}
Ymd(d) == d.year * 10000 + d.month * 100 + d.day

\* C1: every call of analyze_batch_code returns a (success, message,
\* interpretations) triple and raises nothing; a code for which no decoder
\* produced an interpretation is reported through success = FALSE.
C1_AlwaysReturns ==
    Called =>
        /\ ~result.raised
        /\ result.success \in BOOLEAN
        /\ result.message # ""
        /\ (all_interpretations = <<>> => ~result.success)

\* a code of the DDMMYY shape whose every reading was rejected, on 29 February,
\* when is_valid_expiry raises ValueError inside the decoders
C1_Witness ==
    /\ Called
    /\ today.month = 2 /\ today.day = 29
    /\ match_ddmmyy_variants(clean(impl, strip(raw))).ok
    /\ parse_date_variants(impl, 29, 2, 24, today) # <<>>
    /\ ~result.success /\ ~result.raised

\* C2: success is TRUE exactly when the returned list is non-empty.
C2_SuccessIffNonEmpty == Called => (result.success <=> Interps # <<>>)

C2_Witness ==
    /\ Called
    /\ clean(impl, strip(raw)) # <<>>
    /\ all_interpretations = <<>>
    /\ ~result.success /\ Interps = <<>>

\* C3: the returned list never holds a 'YDDD BB' interpretation together with
\* one of the Julian-suffix family; when the decoders produced one of that
\* family, every 'YDDD BB' is dropped and the family's interpretations are kept.
C3_CollisionRule ==
    Called =>
        /\ ~("YDDD BB" \in Labels(Interps) /\ Labels(Interps) \cap JulianFamily # {})
        /\ (Labels(all_interpretations) \cap JulianFamily # {} =>
               /\ "YDDD BB" \notin Labels(Interps)
               /\ \A i \in DOMAIN all_interpretations :
                     all_interpretations[i].format_type \in JulianFamily =>
                         \E j \in DOMAIN Interps : Interps[j] = all_interpretations[i])

C3_Witness ==
    /\ Called
    /\ "YDDD BB" \in Labels(all_interpretations)
    /\ Labels(all_interpretations) \cap JulianFamily # {}
    /\ "YDDD BB" \notin Labels(Interps)
    /\ Labels(Interps) \cap JulianFamily # {}

\* C4: the returned list is in non-increasing order of confidence, so its
\* first element has the greatest confidence.
C4_SortedByConfidence ==
    Called =>
        \A i, j \in DOMAIN Interps : i < j => Interps[i].confidence >= Interps[j].confidence

\* the decoders produced a lower confidence before a higher one
C4_Witness ==
    /\ Called
    /\ \E i, j \in DOMAIN all_interpretations :
          i < j /\ all_interpretations[i].confidence < all_interpretations[j].confidence
    /\ Len(Interps) >= 2
    /\ Interps[1].confidence > Interps[Len(Interps)].confidence

\* C5: the expiry date of every returned interpretation is its production date
\* three years later, same month and day, 29 February giving 28 February.
ExpectedExpiry(p) ==
    IF p.month = 2 /\ p.day = 29 THEN Date(p.year + 3, 2, 28)
    ELSE Date(p.year + 3, p.month, p.day)

C5_ExpiryIsThreeYears ==
    Called =>
        \A i \in DOMAIN Interps :
            Interps[i].expiry_date = ExpectedExpiry(Interps[i].production_date)

C5_Witness ==
    /\ Called
    /\ \E i \in DOMAIN Interps :
          /\ Interps[i].production_date.month = 2
          /\ Interps[i].production_date.day = 29
    /\ \E i \in DOMAIN Interps : Interps[i].production_date.month # 2

\* C6: the expiry date of every returned interpretation lies within
\* [2015-01-01, today + 3 years].
C6_ExpiryInRange ==
    Called =>
        \A i \in DOMAIN Interps :
            /\ Ymd(Date(2015, 1, 1)) <= Ymd(Interps[i].expiry_date)
            /\ Ymd(Interps[i].expiry_date) <= Ymd(Date(today.year + 3, today.month, today.day))

\* an interpretation produced today, which expires exactly on the upper bound
C6_Witness ==
    /\ Called
    /\ \E i \in DOMAIN Interps :
          /\ Interps[i].production_date = today
          /\ Interps[i].expiry_date = Date(today.year + 3, today.month, today.day)

\* C7: the production date of every returned interpretation is at most 90
\* days after today, whichever decoder produced it.
C7_ProductionNotFarFuture ==
    Called =>
        \A i \in DOMAIN Interps :
            DateLE(Interps[i].production_date, timedelta_add(today, 90))

\* a returned interpretation of a decoder that never calls the resolver
C7_Witness ==
    /\ Called
    /\ \E i \in DOMAIN Interps :
          /\ Interps[i].format_name_source \in
                 {validators(impl)[k] : k \in {1, 2, 3, 7}}
          /\ ~DateLE(Interps[i].production_date, today)

\* C10: no two returned interpretations agree on (production date, expiry
\* date, format label).
C10_NoDuplicateTriples ==
    Called =>
        \A i, j \in DOMAIN Interps :
            i # j =>
                <<Interps[i].production_date, Interps[i].expiry_date, Interps[i].format_type>>
                    # <<Interps[j].production_date, Interps[j].expiry_date, Interps[j].format_type>>

\* two decoders produced the same dates under different labels
C10_Witness ==
    /\ Called
    /\ \E i, j \in DOMAIN Interps :
          /\ i # j
          /\ Interps[i].production_date = Interps[j].production_date
          /\ Interps[i].expiry_date = Interps[j].expiry_date
          /\ Interps[i].format_name_source # Interps[j].format_name_source

\* the code as the normalisation rule states it: hyphen, underscore, dot,
\* slash, backslash and whitespace removed wherever they occur, upper-cased
Canonical(code) ==
    upper(SelectSeq(code, LAMBDA c : c \notin (SeparatorChars \cup WhitespaceChars)))

\* C8: separators and whitespace inserted anywhere in a code, and the case of
\* its letters, do not change the result: a call returns what the call of
\* the canonical form of its code returns.
C8_SeparatorsAndCaseIgnored ==
    Called => result = analyze_batch_code(impl, Self, Canonical(raw), today)

\* the same statement for batch_code_reader.py alone, and for app_fixed.py on
\* codes that are not empty once cleaned and hold no interior whitespace
C8_WhereItHolds ==
    Called /\ (impl = "reader" \/ (Range(strip(raw)) \cap WhitespaceChars = {}
                                      /\ Canonical(raw) # <<>>))
        => result = analyze_batch_code(impl, Self, Canonical(raw), today)

\* a code typed with a separator, interior whitespace or lower-case letters is decoded
C8_Witness ==
    /\ Called
    /\ raw # Canonical(raw)
    /\ Range(strip(raw)) \cap WhitespaceChars # {}
    /\ analyze_batch_code(impl, Self, Canonical(raw), today).success

Code500903 == <<"5", "0", "0", "9", "0", "3">>
LeapDay(d) == d.month = 2 /\ d.day = 29

\* C11: on any date from 2025-01-09 to the end of 2034 the code 500903 is
\* decoded, and its first interpretation is labelled 'YDDD BB', with Julian
\* day 90, batch '03' and the year of the decade heuristic.
C11_Example500903 ==
    Called /\ raw = Code500903 /\ DateLE(Date(2025, 1, 9), today) /\ today.year < 2035
        => /\ result.success
           /\ Interps[1].format_type = "YDDD BB"
           /\ Interps[1].julian_day = 90
           /\ Interps[1].batch = <<"0", "3">>
           /\ Interps[1].production_date.year = yddd_year(5, today)

\* what the code returns for 500903 on those dates other than 29 February:
\* Julian day 9 (the digits 009), produced on 9 January 2025
C11_ExceptLeapDay ==
    Called /\ raw = Code500903 /\ DateLE(Date(2025, 1, 9), today) /\ today.year < 2035
           /\ ~LeapDay(today)
        => /\ result.success
           /\ Interps[1].format_type = "YDDD BB"
           /\ Interps[1].julian_day = 9
           /\ Interps[1].production_date = Date(2025, 1, 9)
           /\ Interps[1].batch = <<"0", "3">>

\* 500903 analysed on 29 February 2028: no interpretation
C11_OnLeapDay ==
    /\ Called /\ raw = Code500903
    /\ today = Date(2028, 2, 29)
    /\ ~result.success

Code27124128 == <<"2", "7", "1", "2", "4", "1", "2", "8">>

\* the format labels of the two files that name a suffix, in either case of
\* the letter s (the Special Prefix labels of app_fixed.py, which embed the
\* code's own characters, are left out: 27124128 has no letter prefix)
SuffixLabels ==
    {"DD/MM/YY + suffix", "MM/DD/YY + suffix", "Parsed Date (MM/YY?) + suffix",
     "Julian DDDYY + Suffix", "Julian DDDYY + Alpha Suffix",
     "DDMMYY + Alpha Suffix", "MMDDYY + Alpha Suffix", "MMYY (End of Month) + Alpha Suffix",
     "Prefix-YYMM-Suffix", "Legacy YYDDD (Julian) + Suffix"}

HasSuffix128(s) ==
    \E i \in DOMAIN s :
        /\ s[i].format_type \in SuffixLabels
        /\ get(s[i], "suffix", <<>>) = <<"1", "2", "8">>

\* C12: on any date of this century from 2024-09-27 on, the code 27124128 is
\* decoded with at least one interpretation whose label names a suffix and
\* whose suffix field is "128".
C12_Example27124128 ==
    Called /\ raw = Code27124128 /\ DateLE(Date(2024, 9, 27), today) /\ today.year < 2100
        => result.success /\ HasSuffix128(Interps)

\* the same on the dates other than 29 February, where the interpretation is
\* the Julian one: day 271 of 2024, suffix 128
C12_ExceptLeapDay ==
    Called /\ raw = Code27124128 /\ DateLE(Date(2024, 9, 27), today) /\ today.year < 2100
           /\ ~LeapDay(today)
        => /\ result.success
           /\ \E i \in DOMAIN Interps :
                 /\ Interps[i].format_type = "Julian DDDYY + Suffix"
                 /\ Interps[i].production_date = Date(2024, 9, 27)
                 /\ Interps[i].suffix = <<"1", "2", "8">>

\* 27124128 analysed on 29 February 2028: no interpretation
C12_OnLeapDay ==
    /\ Called /\ raw = Code27124128
    /\ today = Date(2028, 2, 29)
    /\ ~result.success /\ Interps = <<>>

\* an interpretation of the decoder that reads the registry entry key
InFamily(s, key) ==
    \E i \in DOMAIN s : \E k \in 1..8 :
        pattern_key(k) = key /\ s[i].format_name_source = validators(impl)[k]

\* C13: with the clock in 2025 or 2026, every example of the pattern registry
\* is decoded, with at least one interpretation of the decoder of the pattern
\* under which it is listed.
C13_ExamplesRoundTrip ==
    Called /\ today.year \in {2025, 2026}
        => \A key \in load_historical_patterns :
               raw \in examples[key] => result.success /\ InFamily(Interps, key)

\* the examples listed under the Julian, alpha-suffix and prefix patterns are
\* decoded under their own pattern throughout 2025 and 2026
C13_ExamplesThatRoundTrip ==
    Called /\ today.year \in {2025, 2026}
        => \A key \in {"julian_with_suffix", "mixed_alpha", "prefix_yymm_suffix"} :
               raw \in examples[key] => result.success /\ InFamily(Interps, key)

\* the example of special_prefix, H1619A, analysed in 2026: no interpretation
C13_ExampleNotDecoded ==
    /\ Called /\ today.year = 2026
    /\ raw \in examples["special_prefix"]
    /\ ~result.success

\* the decoders that raise in this call, and the validator with its registry whole
Raising == {k \in 1..8 : val_func(k, impl, Self, clean(impl, strip(raw)), today).exc}
Whole == [Self EXCEPT !.historical_patterns = load_historical_patterns]

\* all_interpretations as the decoders outside skip give it, none of them failing
RECURSIVE Others(_, _)
Others(k, skip) ==
    IF k = 0 THEN <<>>
    ELSE IF k \in skip THEN Others(k - 1, skip)
    ELSE Others(k - 1, skip)
             \o Contribution(val_func(k, impl, Whole, clean(impl, strip(raw)), today),
                             validators(impl)[k])

\* C14: when a decoder raises, the call returns normally and its result is
\* the one computed from the interpretations of the other seven decoders.
C14_FailingDecoderOmitted ==
    Called /\ clean(impl, strip(raw)) # <<>> /\ Raising # {}
        => /\ ~result.raised
           /\ Cardinality(Raising) = 1
           /\ result = rank(impl, Others(8, Raising))

\* the raising decoder would have contributed, and a decoder after it in
\* the list did
C14_Witness ==
    /\ Called /\ clean(impl, strip(raw)) # <<>>
    /\ \E k \in Raising :
          /\ val_func(k, impl, Whole, clean(impl, strip(raw)), today).interps # <<>>
          /\ \E i \in DOMAIN Interps : \E j \in (k + 1)..8 :
                 Interps[i].format_name_source = validators(impl)[j]
    /\ result.success

\* permutations of the validators list: reversed, rotated, the first and
\* the legacy decoder exchanged, neighbours exchanged
Orders ==
    {<<8, 7, 6, 5, 4, 3, 2, 1>>, <<4, 5, 6, 7, 8, 1, 2, 3>>,
     <<7, 2, 3, 4, 5, 6, 1, 8>>, <<2, 1, 4, 3, 6, 5, 8, 7>>}

\* an interpretation without its provenance fields
Fields(interp) ==
    [f \in DOMAIN interp \ {"format_name_source", "parsing_message"} |-> interp[f]]
FieldSet(s) == {Fields(s[i]) : i \in DOMAIN s}
Confidences(s) == [i \in DOMAIN s |-> s[i].confidence]

\* C15: run in any other order, the decoders give the same set of
\* interpretations; only interpretations of equal confidence can change places.
C15_OrderIndependent ==
    Called =>
        \A order \in Orders :
            LET other == analyze_in(order, impl, Self, raw, today)
            IN  /\ other.success = result.success
                /\ FieldSet(other.interps) = FieldSet(Interps)
                /\ Len(other.interps) = Len(Interps)
                /\ Confidences(other.interps) = Confidences(Interps)

\* a call whose interpretations come from three decoders, which every other
\* order collects in another sequence
C15_Witness ==
    /\ Called
    /\ Cardinality({Interps[i].format_name_source : i \in DOMAIN Interps}) >= 3
    /\ "YDDD BB" \in Labels(all_interpretations)
    /\ \A order \in Orders :
          collect_in(order, 8, impl, Self, clean(impl, strip(raw)), today)
              # all_interpretations

\* the k-th validator of the two files returns the same matched flag and
\* the same interpretations for the cleaned code of this call
SameInBothFiles(k) ==
    LET code == Canonical(raw)
        r == val_func(k, "reader", Self, code, today)
        a == val_func(k, "app", Self, code, today)
    IN  r.exc = a.exc /\ r.valid = a.valid /\ r.interps = a.interps

\* C16: each of the eight validators of batch_code_reader.py returns the
\* same matched flag and the same interpretations as the validator of the
\* same name in app_fixed.py.
C16_ValidatorsPreserved ==
    Called /\ Canonical(raw) # <<>> => \A k \in 1..8 : SameInBothFiles(k)

\* the six validators other than validate_historical_pattern_4 and
\* validate_special_prefix do agree
C16_ValidatorsThatAgree ==
    Called /\ Canonical(raw) # <<>> => \A k \in {1, 2, 3, 4, 6, 7} : SameInBothFiles(k)

\* a code for which validate_special_prefix of app_fixed.py returns an
\* interpretation of the resolver that batch_code_reader.py does not return
C16_Witness ==
    /\ Called
    /\ Len(val_func(8, "app", Self, Canonical(raw), today).interps)
           > Len(val_func(8, "reader", Self, Canonical(raw), today).interps)
    /\ val_func(8, "reader", Self, Canonical(raw), today).valid

WhitespaceOnly(code) == Range(code) \subseteq WhitespaceChars

\* C17: for an input that is empty or made of whitespace only the call
\* fails with an empty list, and no decoder produces an interpretation.
C17_EmptyInputFails ==
    Called /\ WhitespaceOnly(raw)
        => /\ ~result.raised /\ ~result.success
           /\ Interps = <<>>
           /\ all_interpretations = <<>>
           /\ \A k \in 1..8 :
                 val_func(k, impl, Self, clean(impl, strip(raw)), today).interps = <<>>

\* a call whose input is a blank followed by a tab, or a single blank
C17_Witness ==
    /\ Called
    /\ raw # <<>> /\ WhitespaceOnly(raw)
    /\ clean(impl, strip(raw)) = <<>>
    /\ ~result.success

\* the message returned for an input that is empty before cleaning
OriginallyEmptyMessage == EmptyCodeResult(impl, <<>>).message

SeparatorsOnly == Called /\ strip(raw) # <<>> /\ clean(impl, strip(raw)) = <<>>

\* C18: when the cleaned code is empty, the failure message for an input
\* that was non-empty and made only of separators differs from the message
\* for an input that was empty or whitespace-only before cleaning.
C18_MessageDistinguishes ==
    SeparatorsOnly => result.message # OriginallyEmptyMessage

\* the distinction as app_fixed.py makes it
C18_AppDistinguishes ==
    SeparatorsOnly /\ impl = "app" => result.message # OriginallyEmptyMessage

\* batch_code_reader.py answers a separators-only input with the message
\* of the empty input
C18_Witness ==
    /\ SeparatorsOnly
    /\ impl = "reader"
    /\ ~result.success
    /\ result.message = OriginallyEmptyMessage

ExpiryCalled == pc = "expiry"
ExpiryArgument == raw[1]

\* 2015-01-01 <= e <= (today.year + 3, today.month, today.day), by year,
\* month and day
WithinThreeYears(e, now) ==
    /\ 20150101 <= Ymd(e)
    /\ Ymd(e) <= (now.year + 3) * 10000 + now.month * 100 + now.day

\* C19: at every clock reading, 29 February included, is_valid_expiry(e)
\* raises nothing and returns true exactly when e lies between 2015-01-01
\* and the date three years after today, both inclusive.
C19_ExpiryValidity ==
    ExpiryCalled
        => /\ ~result.exc
           /\ result.ok = WithinThreeYears(ExpiryArgument, today)

\* the same on every day but 29 February
C19_ExceptLeapDay ==
    ExpiryCalled /\ ~LeapDay(today)
        => /\ ~result.exc
           /\ result.ok = WithinThreeYears(ExpiryArgument, today)

\* is_valid_expiry raises on 29 February
C19_RaisesOnLeapDay ==
    /\ ExpiryCalled
    /\ LeapDay(today)
    /\ result.exc

ResolverCalled == pc = "resolved"

\* the readings of part1, part2 in one year, whether calendar-valid or not
Readings(part1, part2, year) ==
    {Date(year, part2, part1), Date(year, part1, part2)}
    \cup (IF part1 \in 1..12 THEN {Date(year, part1, monthrange(year, part1))} ELSE {})

CalendarValid(d) ==
    /\ d.month \in 1..12
    /\ d.day \in 1..31
    /\ d.day <= monthrange(d.year, d.month)

\* what parse_date_variants(part1, part2, yy) is to return at clock reading now
ExpectedVariants(part1, part2, yy, now) ==
    {d \in UNION {Readings(part1, part2, year) :
                     year \in {y \in {1900 + yy, 2000 + yy} : 2015 <= y /\ y <= now.year + 1}} :
        /\ CalendarValid(d)
        /\ toordinal(d) <= toordinal(now) + 90}

StrictlyAscending(s) == \A i, j \in DOMAIN s : i < j => Ymd(s[i]) < Ymd(s[j])

\* C20: parse_date_variants returns a strictly ascending list whose
\* elements are exactly the calendar-valid DD/MM, MM/DD and month-end
\* readings in the candidate years within [2015, current year + 1] that are
\* not later than 90 days from now.
C20_VariantsExact ==
    ResolverCalled
        => /\ StrictlyAscending(all_interpretations)
           /\ Range(all_interpretations) = ExpectedVariants(raw[1], raw[2], raw[3], today)

\* a call where the three readings are three dates, the DD/MM reading not
\* the earliest of them, and a call at the same arguments one year later
\* would have its readings rejected
C20_Witness ==
    /\ ResolverCalled
    /\ Len(all_interpretations) = 3
    /\ all_interpretations[1] # Date(2000 + raw[3], raw[2], raw[1])
    /\ ExpectedVariants(raw[1], raw[2], raw[3] + 1, today) = {}

\* the number of days from the clock reading to date d
DaysAhead(d) == toordinal(d) - toordinal(today)

\* the DD/MM and MM/DD readings of the arguments in the candidate years
\* within [2015, current year + 1], calendar-valid ones only
DayMonthReadings ==
    {d \in UNION {{Date(year, raw[2], raw[1]), Date(year, raw[1], raw[2])} :
                     year \in {y \in {1900 + raw[3], 2000 + raw[3]} :
                                  2015 <= y /\ y <= today.year + 1}} :
        CalendarValid(d)}

\* C21: parse_date_variants never returns a date 91 days or more after
\* today, and returns every calendar-valid DD/MM or MM/DD reading that lies
\* 89 days after today in a year within [2015, current year + 1].
C21_NinetyDayBoundary ==
    ResolverCalled
        => /\ \A i \in DOMAIN all_interpretations : DaysAhead(all_interpretations[i]) < 91
           /\ \A d \in DayMonthReadings :
                 DaysAhead(d) = 89 => d \in Range(all_interpretations)

\* a call that returns a reading 89 days after today
C21_Witness ==
    /\ ResolverCalled
    /\ \E d \in DayMonthReadings : DaysAhead(d) = 89 /\ d \in Range(all_interpretations)

\* a call one of whose readings lies 91 days after today and is left out
C21_RejectedAt91 ==
    /\ ResolverCalled
    /\ \E d \in DayMonthReadings : DaysAhead(d) = 91 /\ d \notin Range(all_interpretations)

JulianCalled == pc = "julian"

\* the number of days of a year, by the Gregorian rule
DaysInYear(year) ==
    IF year % 400 = 0 THEN 366
    ELSE IF year % 100 = 0 THEN 365
    ELSE IF year % 4 = 0 THEN 366 ELSE 365

\* the day of the year of a date, counted in days from 1 January
date_to_julian(d) == toordinal(d) - toordinal(Date(d.year, 1, 1)) + 1

\* C22: julian_to_date(year, d) succeeds exactly when 1 <= d <= 366 in a
\* leap year or 1 <= d <= 365 otherwise and raises for every other d; on
\* success the result is the date of that year whose day of the year is d,
\* and the julian_day field of an interpretation is the day of the year of
\* its production date.
C22_JulianRoundTrip ==
    /\ JulianCalled
           => /\ (result # NoDate) = (1 <= raw[2] /\ raw[2] <= DaysInYear(raw[1]))
              /\ result # NoDate
                     => /\ CalendarValid(result)
                        /\ result.year = raw[1]
                        /\ date_to_julian(result) = raw[2]
    /\ Called
           => \A i \in DOMAIN Interps :
                  "julian_day" \in DOMAIN Interps[i]
                      => date_to_julian(Interps[i].production_date) = Interps[i].julian_day

\* day 366 of a leap year is 31 December of that year
C22_Witness ==
    /\ JulianCalled
    /\ raw[2] = 366
    /\ result = Date(raw[1], 12, 31)

\* an interpretation whose julian_day 60 is 29 February
C22_WitnessField ==
    /\ Called
    /\ \E i \in DOMAIN Interps :
           /\ "julian_day" \in DOMAIN Interps[i]
           /\ Interps[i].julian_day = 60
           /\ Interps[i].production_date = Date(2024, 2, 29)

AddYearsCalled == pc = "added"

\* C23: add_years(date, n) returns the date with the same month and day in
\* year + n; for a 29 February source it returns 28 February of a target
\* year that is not a leap year, without raising, and 29 February of a
\* target year that is one.
C23_AddYears ==
    AddYearsCalled
        => LET date == raw[1]
               target == raw[1].year + raw[2]
           IN  /\ result # NoDate
               /\ result =
                     IF date.month = 2 /\ date.day = 29 /\ DaysInYear(target) = 365
                     THEN Date(target, 2, 28)
                     ELSE Date(target, date.month, date.day)

\* add_years(2020-02-29, 1) = 2021-02-28
C23_Witness ==
    /\ AddYearsCalled
    /\ raw = <<Date(2020, 2, 29), 1>>
    /\ result = Date(2021, 2, 28)

\* add_years(2020-02-29, 4) = 2024-02-29
C23_WitnessLeapTarget ==
    /\ AddYearsCalled
    /\ raw = <<Date(2020, 2, 29), 4>>
    /\ result = Date(2024, 2, 29)

CenturyCalled == pc = "century"

\* C24: _resolve_two_digit_year(yy) raises when yy is outside [0, 99];
\* otherwise, with century_start = (current year // 100) * 100, it returns
\* century_start + yy when yy < 50 and century_start - 100 + yy when
\* yy >= 50.
C24_TwoDigitYear ==
    CenturyCalled
        => LET yy == raw[1]
               century_start == today.year - (today.year % 100)
           IN  /\ result.exc = (yy < 0 \/ yy > 99)
               /\ ~result.exc /\ yy < 50 => result.val = century_start + yy
               /\ ~result.exc /\ yy >= 50 => result.val = century_start - 100 + yy

\* 50 resolves to 1950 and 49 to 2049
C24_Witness ==
    /\ CenturyCalled
    /\ raw = <<50>>
    /\ result = [exc |-> FALSE, val |-> 1950]

\* where an interpretation stands in the list collected from the decoders
Collected(x) ==
    CHOOSE p \in DOMAIN all_interpretations :
        /\ all_interpretations[p] = x
        /\ \A q \in DOMAIN all_interpretations : all_interpretations[q] = x => p <= q

\* the place of an interpretation's decoder in the validators list
Priority(x) == CHOOSE k \in 1..8 : validators(impl)[k] = x.format_name_source

EqualConfidence(i, j) ==
    get(Interps[i], "confidence", 0) = get(Interps[j], "confidence", 0)

\* C25: in the final list interpretations of equal confidence stand in
\* decoder priority order, and those of one decoder in the order the
\* decoder produced them: neither the dedup pass nor the final sort
\* reorders entries of equal confidence.
C25_TiesKeepCollectionOrder ==
    Called
        => \A i, j \in DOMAIN Interps :
               i < j /\ EqualConfidence(i, j)
                   => /\ Priority(Interps[i]) <= Priority(Interps[j])
                      /\ Collected(Interps[i]) < Collected(Interps[j])

\* two entries of equal confidence in a final list from which the collision
\* rule or the dedup pass has removed a collected entry
C25_Witness ==
    /\ Called
    /\ Len(Interps) < Len(all_interpretations)
    /\ \E i, j \in DOMAIN Interps :
           /\ i < j
           /\ EqualConfidence(i, j)
           /\ Interps[i].production_date # Interps[j].production_date

\* no two decoders that decode the same code use the same confidence: the
\* entries of equal confidence are always those of one decoder
C25_TiesWithinOneDecoder ==
    Called
        => \A i, j \in DOMAIN Interps :
               EqualConfidence(i, j) => Priority(Interps[i]) = Priority(Interps[j])

\* the code of the call as validate_special_prefix sees it, and its fields
SpecialMatch == match_special_prefix(Canonical(raw))
SpecialReturn == val_func(8, impl, Self, Canonical(raw), today)
SpecialField1 == int(Sub(SpecialMatch.g[2], 1, 2))
SpecialField2 == int(Sub(SpecialMatch.g[2], 3, 4))

\* the MM/YY month-end reading of the two fields
MonthEndReading ==
    LET year == IF SpecialField2 < 50 THEN 2000 + SpecialField2 ELSE 1900 + SpecialField2
    IN  IF SpecialField1 \in 1..12 /\ 2015 <= year /\ year <= today.year + 1
        THEN {d \in {Date(year, SpecialField1, monthrange(year, SpecialField1))} :
                 DaysAhead(d) <= 90}
        ELSE {}

\* the Candidate Date Resolver's readings of the same two fields
ResolverReadings ==
    Range(parse_date_variants(impl, SpecialField1, SpecialField2, SpecialField2, today))

InPolicy(d) == WithinThreeYears(add_years(d, 3), today)

\* the production dates of a list of interpretations
ProductionDates(s) == {s[i].production_date : i \in DOMAIN s}

\* the decoder's interpretations are the in-policy readings of both kinds,
\* one for each production date, 0.75 for the month-end reading and 0.70
\* for the others
SpecialUnion ==
    LET out == SpecialReturn.interps
    IN  /\ ProductionDates(out) = {d \in MonthEndReading \cup ResolverReadings : InPolicy(d)}
        /\ \A i, j \in DOMAIN out : out[i].production_date = out[j].production_date => i = j
        /\ \A i \in DOMAIN out :
               out[i].confidence = IF out[i].production_date \in MonthEndReading THEN 75 ELSE 70

\* C26: for a letter, four digits and an alphanumeric run
\* validate_special_prefix returns the union of the MM/YY month-end reading
\* (0.75) and the Candidate Date Resolver's readings of the same two
\* fields (0.70), one interpretation for each production date; for a date
\* run of two or three digits it returns matched = false and nothing.
C26_SpecialPrefixUnion ==
    Called /\ Canonical(raw) # <<>> /\ SpecialMatch.ok
        => IF Len(SpecialMatch.g[2]) = 4 THEN SpecialUnion
           ELSE ~SpecialReturn.valid /\ SpecialReturn.interps = <<>>

\* app_fixed.py does so, on a day other than 29 February and with the
\* validator's current_year that of the clock
C26_AppUnion ==
    (/\ Called /\ Canonical(raw) # <<>> /\ SpecialMatch.ok
     /\ impl = "app" /\ ~LeapDay(today) /\ current_year = today.year)
        => IF Len(SpecialMatch.g[2]) = 4 THEN SpecialUnion
           ELSE ~SpecialReturn.valid /\ SpecialReturn.interps = <<>>

\* batch_code_reader.py leaves out an in-policy reading of the resolver
C26_Witness ==
    /\ Called /\ Canonical(raw) # <<>> /\ SpecialMatch.ok
    /\ Len(SpecialMatch.g[2]) = 4
    /\ impl = "reader" /\ ~LeapDay(today) /\ current_year = today.year
    /\ \E d \in ResolverReadings :
           InPolicy(d) /\ d \notin ProductionDates(SpecialReturn.interps)

\* app_fixed.py returns both kinds of reading for one code
C26_AppBothKinds ==
    /\ Called /\ Canonical(raw) # <<>> /\ SpecialMatch.ok
    /\ impl = "app"
    /\ \E i, j \in DOMAIN SpecialReturn.interps :
           SpecialReturn.interps[i].confidence = 75 /\ SpecialReturn.interps[j].confidence = 70

\* a validator constructed at the clock reading of the call
FreshValidator == [Self EXCEPT !.current_year = today.year]

\* what that validator returns for the code of the call
FreshResult ==
    IF clean(impl, strip(raw)) = <<>> THEN EmptyCodeResult(impl, strip(raw))
    ELSE rank(impl, collect(8, impl, FreshValidator, clean(impl, strip(raw)), today))

\* C27: the result of analyze_batch_code(code) depends on the code and on
\* the date of the call only: a validator constructed in an earlier year
\* returns what a validator constructed at the time of the call returns.
C27_ResultIndependentOfAge ==
    Called => result = FreshResult

\* a validator constructed the year before the call does return the same
C27_OneYearOld ==
    Called /\ today.year - current_year <= 1 => result = FreshResult

\* a validator constructed two years before the call returns another result
C27_Witness ==
    /\ Called
    /\ current_year = today.year - 2
    /\ result # FreshResult
    /\ FreshResult.success

\* C28: every interpretation returned by analyze_batch_code has a
\* production date no later than one day after today.
C28_ProductionAtMostOneDayAhead ==
    Called => \A i \in DOMAIN Interps : DaysAhead(Interps[i].production_date) <= 1

\* an interpretation produced tomorrow: 29 February, read on 28 February
C28_Witness ==
    /\ Called
    /\ \E i \in DOMAIN Interps :
           /\ DaysAhead(Interps[i].production_date) = 1
           /\ Interps[i].expiry_date = Date(today.year + 3, today.month, today.day)

\* a code one of whose readings the resolver accepts more than a day ahead,
\* an interpretation the caller never sees
C28_ResolverAllowsMore ==
    /\ Called
    /\ Len(Canonical(raw)) = 6
    /\ \E d \in Range(parse_date_variants(impl, int(Sub(Canonical(raw), 1, 2)),
                                           int(Sub(Canonical(raw), 3, 4)),
                                           int(Sub(Canonical(raw), 5, 6)), today)) :
           DaysAhead(d) > 1

\* the collected interpretations after the collision rule
AfterCollisionRule == collision_rule(all_interpretations)

\* C29: the interpretations collected from the decoders, after the
\* collision rule, have pairwise distinct dedup keys, so the dedup pass
\* drops none and the final list is as long as the collected list.
C29_DedupDropsNothing ==
    Called /\ ~result.raised
        => /\ \A i, j \in DOMAIN AfterCollisionRule :
                  key_tuple(AfterCollisionRule[i]).val = key_tuple(AfterCollisionRule[j]).val
                      => i = j
           /\ Len(Interps) = Len(AfterCollisionRule)

\* a call that collects from three decoders or more, two entries from one
\* of them, with nothing for the collision rule to remove
C29_Witness ==
    /\ Called
    /\ Len(AfterCollisionRule) = Len(all_interpretations)
    /\ Len(Interps) >= 4
    /\ Cardinality({Interps[i].format_name_source : i \in DOMAIN Interps}) >= 3
    /\ Cardinality({Interps[i].format_name_source : i \in DOMAIN Interps}) < Len(Interps)

\* the partitions of n digits into a first and a second field of one or two
\* digits, a two-digit year and a suffix of one to three digits
Partitions(n) ==
    {w \in {1, 2} \X {1, 2} : n - w[1] - w[2] - 2 \in 1..3}

\* the leftmost-greedy one: longest first field, then longest second field
Leftmost(n) ==
    CHOOSE w \in Partitions(n) :
        \A v \in Partitions(n) : v[1] * 10 + v[2] <= w[1] * 10 + w[2]

\* the in-policy readings of the code under partition w
PartitionDates(code, w) ==
    {d \in Range(parse_date_variants(impl,
                                     int(Sub(code, 1, w[1])),
                                     int(Sub(code, w[1] + 1, w[1] + w[2])),
                                     int(Sub(code, w[1] + w[2] + 1, w[1] + w[2] + 2)),
                                     today)) : InPolicy(d)}

PartitionSuffix(code, w) == Sub(code, w[1] + w[2] + 3, Len(code))

Pattern1Return == val_func(4, impl, Self, Canonical(raw), today)

Pattern1Applies ==
    /\ Called
    /\ isdigit(Canonical(raw))
    /\ Partitions(Len(Canonical(raw))) # {}

C30_WitnessDecoded ==
    /\ Pattern1Applies
    /\ Pattern1Return.valid
    /\ Cardinality(Partitions(Len(Canonical(raw)))) > 1

====
